-------------------------- MODULE ContainersSteps ---------------------------
(***************************************************************************)
(* What the steps of each kind of container keep, for every size, every    *)
(* set of elements and keys, every hash and every number of threads: an    *)
(* invariant for each kind, and the lemmas about its operators.            *)
(* ContainersProofs puts them together.                                    *)
(***************************************************************************)
EXTENDS Containers, Iteration, FiniteSetTheorems, SequenceTheorems

LEMMA SizeIs == Size \in Nat /\ Size >= 1
BY SizeAssumption

LEMMA NodesIs == Nodes \in Nat /\ Null \notin 1..Nodes
BY NodesAssumption

LEMMA ElementIs ==
  /\ Null \notin Element /\ KeyOf \in [Element -> Key] /\ HashOf \in [Key -> Int]
  /\ \A e \in Element : Rank[e] \in Int
  /\ \A g \in Transform : g \in [Element -> Element]
BY ElementAssumption

-----------------------------------------------------------------------------
(* Stack: the step of an operation that has the mutex moves the offset by  *)
(* one, and only inside the array does the model go on.                    *)

LEMMA StackInit == Lifo!Init => Lifo!TypeOK
BY SizeIs DEF Lifo!Init, Lifo!TypeOK, Lifo!Construct, Lifo!Slot, Lifo!Idle

LEMMA StackKeeps == Lifo!TypeOK /\ Lifo!Next => Lifo!TypeOK'
<1> SUFFICES ASSUME Lifo!TypeOK, Lifo!Next PROVE Lifo!TypeOK'
  OBVIOUS
<1> DEFINE Array == [Lifo!Slot -> Element \cup {Null}]
           Ways  == {Lifo!Idle, <<"pop">>, <<"peek">>} \cup {<<"push", e>> : e \in Element}
<1>1. /\ obj \in [size : 1..Size, offset : -Size..2 * Size, data : Array]
      /\ aux \in [Thread -> Ways]
      /\ obj.offset \in 0..obj.size /\ obj.size \in 1..Size
  BY SizeIs DEF Lifo!TypeOK, Lifo!Next, Lifo!StaysInBounds
<1>2. SUFFICES /\ obj' \in [size : 1..Size, offset : -Size..2 * Size, data : Array]
               /\ aux' \in [Thread -> Ways]
  BY DEF Lifo!TypeOK
<1>3. CASE Lifo!Renew
  BY <1>1, <1>3, SizeIs DEF Lifo!Renew, Lifo!Construct, Lifo!Slot
<1>4. ASSUME NEW t \in Thread, NEW e \in Element, Lifo!StartPush(t, e)
      PROVE  /\ obj' \in [size : 1..Size, offset : -Size..2 * Size, data : Array]
             /\ aux' \in [Thread -> Ways]
  BY <1>1, <1>4 DEF Lifo!StartPush
<1>5. ASSUME NEW t \in Thread, NEW op \in {"pop", "peek"}, Lifo!Start(t, op)
      PROVE  /\ obj' \in [size : 1..Size, offset : -Size..2 * Size, data : Array]
             /\ aux' \in [Thread -> Ways]
  BY <1>1, <1>5 DEF Lifo!Start
<1>6. ASSUME NEW t \in Thread, Lifo!Store(t)
      PROVE  /\ obj' \in [size : 1..Size, offset : -Size..2 * Size, data : Array]
             /\ aux' \in [Thread -> Ways]
  <2> DEFINE d == [s \in Lifo!Slot |-> IF s = obj.offset THEN aux[t][2] ELSE obj.data[s]]
  <2>1. PICK e \in Element : aux[t] = <<"push", e>>
    BY <1>1, <1>6 DEF Lifo!Store, Lifo!Idle
  <2>2. d \in Array
    BY <1>1, <2>1
  <2>3. obj' = [obj EXCEPT !.data = d, !.offset = obj.offset + 1]
    BY <1>6 DEF Lifo!Store
  <2>4. obj.offset + 1 \in -Size..2 * Size
    BY <1>1, SizeIs
  <2> QED
    BY <1>1, <1>6, <2>2, <2>3, <2>4 DEF Lifo!Store, Lifo!Return
<1>7. ASSUME NEW t \in Thread, Lifo!Pop(t)
      PROVE  /\ obj' \in [size : 1..Size, offset : -Size..2 * Size, data : Array]
             /\ aux' \in [Thread -> Ways]
  <2> DEFINE d == [s \in Lifo!Slot |-> IF s = obj.offset - 1 THEN Null ELSE obj.data[s]]
  <2>1. d \in Array
    BY <1>1
  <2>2. obj' = [obj EXCEPT !.data = d, !.offset = obj.offset - 1]
    BY <1>7 DEF Lifo!Pop
  <2>3. obj.offset - 1 \in -Size..2 * Size
    BY <1>1, SizeIs
  <2> QED
    BY <1>1, <1>7, <2>1, <2>2, <2>3 DEF Lifo!Pop, Lifo!Return
<1>8. ASSUME NEW t \in Thread, Lifo!Peek(t)
      PROVE  /\ obj' \in [size : 1..Size, offset : -Size..2 * Size, data : Array]
             /\ aux' \in [Thread -> Ways]
  BY <1>1, <1>8 DEF Lifo!Peek, Lifo!Return
<1>9. ASSUME NEW t \in Thread,
             Lifo!Overflow(t) \/ Lifo!Underflow(t) \/ Lifo!SeeAll(t) \/ Lifo!IsEmpty(t)
      PROVE  /\ obj' \in [size : 1..Size, offset : -Size..2 * Size, data : Array]
             /\ aux' \in [Thread -> Ways]
  BY <1>1, <1>9 DEF Lifo!Overflow, Lifo!Underflow, Lifo!SeeAll, Lifo!IsEmpty
<1> QED
  BY <1>2, <1>3, <1>4, <1>5, <1>6, <1>7, <1>8, <1>9 DEF Lifo!Next

-----------------------------------------------------------------------------
(* Set: an addition has room, and a removal something to take out.         *)

SetOfSize(n) ==
  [max : {n}, count : 0..n, elements : [0..n - 1 -> Element \cup {Null}],
   pfn_equality : {"compare"}]

(* A set whose function compares keys: the array has its elements in front, *)
(* no two with the same key.                                                *)
Proper(t, n) ==
  /\ t \in SetOfSize(n)
  /\ \A x \in 0..t.count - 1 : t.elements[x] \in Element
  /\ \A x, y \in 0..t.count - 1 : KeyOf[t.elements[x]] = KeyOf[t.elements[y]] => x = y

Members(t) == {t.elements[x] : x \in 0..t.count - 1}

LEMMA Compares ==
  /\ \A n, t : Proper(t, n) => t.pfn_equality = "compare"
  /\ \A x, y : Unique!Same("compare", x, y) <=> KeyOf[x] = KeyOf[y]
<1>1. ASSUME NEW n, NEW t, Proper(t, n) PROVE t.pfn_equality = "compare"
  BY <1>1 DEF Proper, SetOfSize
<1> QED
  BY <1>1 DEF Unique!Same, Unique!PfnEquality

LEMMA EqualsIs ==
  ASSUME NEW n \in Nat, NEW t, Proper(t, n), NEW e \in Element
  PROVE  /\ Unique!Equals(t, e) = {} <=> \A x \in Members(t) : KeyOf[x] # KeyOf[e]
         /\ \A s \in Unique!Equals(t, e) : s \in 0..t.count - 1 /\ KeyOf[t.elements[s]] = KeyOf[e]
         /\ \A s, r \in Unique!Equals(t, e) : s = r
<1>1. Unique!Equals(t, e) = {s \in 0..t.count - 1 : KeyOf[t.elements[s]] = KeyOf[e]}
  BY Compares DEF Unique!Equals
<1> QED
  BY <1>1 DEF Proper, Members

LEMMA StoreIs ==
  ASSUME NEW n \in Nat, NEW t, Proper(t, n), NEW e \in Element, t.count < n,
         \A x \in Members(t) : KeyOf[x] # KeyOf[e]
  PROVE  /\ Proper(Unique!Store(t, e), n)
         /\ Unique!Store(t, e).count = t.count + 1
         /\ Unique!Store(t, e).elements[t.count] = e
         /\ \A x \in 0..t.count - 1 : Unique!Store(t, e).elements[x] = t.elements[x]
         /\ Members(Unique!Store(t, e)) = Members(t) \cup {e}
<1> DEFINE u == Unique!Store(t, e)
<1>1. PICK c \in 0..n : c = t.count
  BY DEF Proper, SetOfSize
<1>2. PICK d \in [0..n - 1 -> Element \cup {Null}] : d = t.elements
  BY DEF Proper, SetOfSize
<1>0. t = [max |-> n, count |-> c, elements |-> d, pfn_equality |-> "compare"]
  BY <1>1, <1>2 DEF Proper, SetOfSize
<1>3. u = [max |-> n, count |-> c + 1, elements |-> [d EXCEPT ![c] = e], pfn_equality |-> "compare"]
  <2> DEFINE v == [max |-> n, count |-> c, elements |-> d, pfn_equality |-> "compare"]
  <2>1. u = [v EXCEPT !.elements = [d EXCEPT ![c] = e], !.count = c + 1]
    <3>1. v.elements = d /\ v.count = c
      OBVIOUS
    <3> HIDE DEF v
    <3> QED
      BY <1>0, <3>1 DEF Unique!Store, v
  <2> QED
    BY <2>1
<1>4. u.count = c + 1 /\ c + 1 \in 0..n /\ u.max = n
  BY <1>1, <1>3
<1>5. /\ u.elements \in [0..n - 1 -> Element \cup {Null}]
      /\ u.elements[c] = e
      /\ \A x \in 0..c - 1 : u.elements[x] = d[x]
  BY <1>1, <1>2, <1>3
<1>6. u \in SetOfSize(n)
  BY <1>3, <1>4, <1>5 DEF SetOfSize
<1> HIDE DEF u
<1>7. \A x \in 0..u.count - 1 : x = c \/ x \in 0..c - 1
  BY <1>4
<1>8. \A x \in 0..c - 1 : x \in 0..u.count - 1 /\ x # c /\ c \in 0..u.count - 1
  BY <1>4
<1>9. /\ \A x \in 0..c - 1 : d[x] \in Element /\ KeyOf[d[x]] # KeyOf[e]
      /\ \A x, y \in 0..c - 1 : KeyOf[d[x]] = KeyOf[d[y]] => x = y
  BY <1>1, <1>2 DEF Proper, Members
<1>10. Proper(u, n)
  BY <1>5, <1>6, <1>7, <1>9 DEF Proper
<1>11. Members(u) = Members(t) \cup {e}
  <2>1. c \in 0..u.count - 1
    BY <1>1, <1>4
  <2> QED
    BY <1>1, <1>2, <1>5, <1>7, <1>8, <2>1 DEF Members
<1> QED
  BY <1>1, <1>2, <1>4, <1>5, <1>10, <1>11 DEF u

LEMMA VacateIs ==
  ASSUME NEW n \in Nat, NEW t, Proper(t, n), NEW s \in 0..t.count - 1
  PROVE  /\ Proper(Unique!Vacate(t, s), n)
         /\ Members(Unique!Vacate(t, s)) = Members(t) \ {t.elements[s]}
<1> DEFINE u == Unique!Vacate(t, s)
<1>1. PICK c \in 0..n : c = t.count
  BY DEF Proper, SetOfSize
<1>2. PICK d \in [0..n - 1 -> Element \cup {Null}] : d = t.elements
  BY DEF Proper, SetOfSize
<1>3. c >= 1 /\ c - 1 \in 0..n - 1 /\ s \in 0..n - 1 /\ s \in 0..c - 1 /\ c - 1 \in 0..c - 1
  BY <1>1
<1> DEFINE g == [x \in 0..n - 1 |-> IF x = c - 1 THEN Null ELSE IF x = s THEN d[c - 1] ELSE d[x]]
<1>4. u = [max |-> n, count |-> c - 1, elements |-> g, pfn_equality |-> "compare"]
  <2>1. DOMAIN d = 0..n - 1
    OBVIOUS
  <2>2. t = [max |-> n, count |-> c, elements |-> d, pfn_equality |-> "compare"]
    BY <1>1, <1>2 DEF Proper, SetOfSize
  <2> DEFINE v == [max |-> n, count |-> c, elements |-> d, pfn_equality |-> "compare"]
  <2>3. u = [v EXCEPT !.elements = g, !.count = c - 1]
    <3>1. v.elements = d /\ v.count = c
      OBVIOUS
    <3>2. Unique!Vacate(v, s) = [v EXCEPT !.elements = g, !.count = c - 1]
      <4> HIDE DEF v
      <4> QED
        BY <2>1, <3>1 DEF Unique!Vacate
    <3> QED
      BY <2>2, <3>2
  <2> QED
    BY <2>3
<1>5. /\ g \in [0..n - 1 -> Element \cup {Null}]
      /\ \A x \in 0..c - 2 : x \in 0..c - 1 /\ x # c - 1 /\ g[x] = IF x = s THEN d[c - 1] ELSE d[x]
  BY <1>3
<1> HIDE DEF g
<1>6. u.count = c - 1 /\ c - 1 \in 0..n /\ u.elements = g /\ u \in SetOfSize(n)
  BY <1>3, <1>4, <1>5 DEF SetOfSize
<1> HIDE DEF u
<1>7. \A x \in 0..u.count - 1 : x \in 0..c - 2
  BY <1>6
<1>8. \A x \in 0..c - 2 : x \in 0..u.count - 1
  BY <1>6
<1>9. /\ \A x \in 0..c - 1 : d[x] \in Element
      /\ \A x, y \in 0..c - 1 : KeyOf[d[x]] = KeyOf[d[y]] => x = y
  BY <1>1, <1>2 DEF Proper
<1>10. Proper(u, n)
  <2> DEFINE h(x) == IF x = s THEN c - 1 ELSE x
  <2>1. \A x \in 0..c - 2 : h(x) \in 0..c - 1 /\ g[x] = d[h(x)]
    BY <1>3, <1>5
  <2>2. \A x, y \in 0..c - 2 : h(x) = h(y) => x = y
    OBVIOUS
  <2> HIDE DEF h
  <2>3. \A x \in 0..c - 2 : g[x] \in Element
    BY <1>9, <2>1
  <2>4. \A x, y \in 0..c - 2 : KeyOf[g[x]] = KeyOf[g[y]] => x = y
    BY <1>9, <2>1, <2>2
  <2> QED
    BY <1>6, <1>7, <2>3, <2>4 DEF Proper
<1>11. ASSUME NEW y \in Members(u) PROVE y \in Members(t) /\ y # d[s]
  <2>1. PICK x \in 0..c - 2 : y = g[x]
    BY <1>6, <1>7 DEF Members
  <2>2. PICK r \in 0..c - 1 : y = d[r] /\ r # s
    <3>1. CASE x = s
      <4>1. y = d[c - 1] /\ c - 1 # s
        BY <1>3, <1>5, <2>1, <3>1
      <4> QED
        BY <1>3, <4>1
    <3>2. CASE x # s
      BY <1>5, <2>1, <3>2
    <3> QED
      BY <3>1, <3>2
  <2>3. y # d[s]
    BY <1>3, <1>9, <2>2
  <2> QED
    BY <1>1, <1>2, <2>2, <2>3 DEF Members
<1>12. ASSUME NEW y \in Members(t), y # d[s] PROVE y \in Members(u)
  <2>1. PICK x \in 0..c - 1 : y = d[x]
    BY <1>1, <1>2 DEF Members
  <2>2. x # s
    BY <1>12, <2>1
  <2>3. CASE x = c - 1
    <3>1. s \in 0..c - 2 /\ g[s] = d[x]
      BY <1>3, <1>5, <2>2, <2>3
    <3> QED
      BY <1>6, <1>8, <2>1, <3>1 DEF Members
  <2>4. CASE x # c - 1
    <3>1. x \in 0..c - 2 /\ g[x] = d[x]
      BY <1>3, <1>5, <2>2, <2>4
    <3> QED
      BY <1>6, <1>8, <2>1, <3>1 DEF Members
  <2> QED
    BY <2>3, <2>4
<1> QED
  BY <1>2, <1>10, <1>11, <1>12 DEF u

(* What the set's contents are. *)
LEMMA MembersAre ==
  ASSUME NEW n \in Nat, NEW t, Proper(t, n)
  PROVE  /\ Unique!Contents(t) \in Seq(Element) /\ Len(Unique!Contents(t)) = t.count
         /\ t.count \in 0..n
         /\ \A i \in 1..t.count :
              Unique!Contents(t)[i] = t.elements[i - 1] /\ i - 1 \in 0..t.count - 1
         /\ Unique!Range(Unique!Contents(t)) = Members(t)
         /\ Members(t) \subseteq Element
         /\ \A x, y \in Members(t) : KeyOf[x] = KeyOf[y] => x = y
<1>1. PICK c \in 0..n : c = t.count
  BY DEF Proper, SetOfSize
<1> DEFINE s == Unique!Contents(t)
<1>2. \A i \in 1..c : i - 1 \in 0..c - 1
  OBVIOUS
<1>3. \A x \in 0..c - 1 : x + 1 \in 1..c /\ (x + 1) - 1 = x
  OBVIOUS
<1>4. \A x \in 0..c - 1 : t.elements[x] \in Element
  BY <1>1 DEF Proper
<1>5. s \in [1..c -> Element] /\ \A i \in 1..c : s[i] = t.elements[i - 1]
  BY <1>1, <1>2, <1>4 DEF Unique!Contents
<1> HIDE DEF s
<1>6. s \in Seq(Element) /\ Len(s) = c
  BY <1>5
<1>7. Unique!Range(s) = Members(t)
  <2>1. Unique!Range(s) = {s[i] : i \in 1..c}
    BY <1>5 DEF Unique!Range
  <2> QED
    BY <1>1, <1>2, <1>3, <1>5, <2>1 DEF Members
<1>8. Members(t) \subseteq Element
  BY <1>1, <1>4 DEF Members
<1>9. \A x, y \in Members(t) : KeyOf[x] = KeyOf[y] => x = y
  BY DEF Members, Proper
<1> QED
  BY <1>1, <1>2, <1>5, <1>6, <1>7, <1>8, <1>9 DEF s

LEMMA NewIsProper ==
  ASSUME NEW n \in Nat
  PROVE  Proper(Unique!Construct(n, "compare"), n) /\ Unique!Construct(n, "compare").count = 0
BY DEF Proper, Unique!Construct, SetOfSize

-----------------------------------------------------------------------------
(* The loops over an array of elements or of pairs. *)

LEMMA AddsAll ==
  ASSUME NEW a, NEW n \in Nat, NEW s, Len(s) = n, NEW S, NEW G \in [0..n -> SUBSET S], a \in G[0],
         \A k \in 1..n : \A t \in G[k - 1] : Unique!Added(t, s[k]) \in G[k]
  PROVE  Unique!Through(Unique!Added, a, s) \in G[n]
<1> DEFINE F == [k \in 1..n |-> [t \in S |-> Unique!Added(t, s[k])]]
           Turn(h) == [i \in 0..n |-> IF i = 0 THEN a ELSE Unique!Added(h[i - 1], s[i])]
           after == CHOOSE h : h = Turn(h)
<1>1. \A k \in 1..n : \A t \in S : F[k][t] = Unique!Added(t, s[k])
  OBVIOUS
<1>2. \A k \in 1..n : G[k - 1] \subseteq S /\ k - 1 \in 0..n
  OBVIOUS
<1> HIDE DEF F
<1>3. PICK f : Passes(f, n, S, a, F, G)
  <2>1. Leads(n, S, G, F)
    BY <1>1, <1>2 DEF Leads
  <2> QED
    BY <2>1, Guided
<1>4. \A k \in 1..n : f[k] = Unique!Added(f[k - 1], s[k])
  BY <1>1, <1>2, <1>3 DEF Passes
<1>5. \A i \in 0..n : i # 0 => i \in 1..n
  OBVIOUS
<1>6. f = Turn(f)
  BY <1>3, <1>4, <1>5 DEF Passes
<1>7. after = Turn(after)
  BY <1>6
<1>8. Unique!Through(Unique!Added, a, s) = after[n]
  BY DEF Unique!Through
<1> HIDE DEF after
<1>9. \A i \in 0..n : after[i] = IF i = 0 THEN a ELSE Unique!Added(after[i - 1], s[i])
  BY <1>7
<1> DEFINE I == {i \in 0..n : after[i] = f[i]}
<1>10. 0 \in I
  BY <1>3, <1>9 DEF Passes
<1>11. ASSUME NEW k \in 1..n, k - 1 \in I PROVE k \in I
  BY <1>4, <1>9, <1>11
<1> HIDE DEF I
<1>12. \A i \in 0..n : i \in I
  BY <1>10, <1>11, InductionUpTo
<1> QED
  BY <1>3, <1>8, <1>12 DEF I, Passes
(* Difference and intersection, from where their second loops start.       *)
Takes(a, s) ==
  Unique!Through(LAMBDA t, p : IF Unique!Same(t.pfn_equality, p[1], p[2]) THEN Unique!Removed(t, p[1]) ELSE t,
                 a, s)
Shares(a, s) ==
  Unique!Through(LAMBDA t, p : IF Unique!Same(t.pfn_equality, p[1], p[2]) THEN Unique!Added(t, p[1]) ELSE t,
                 a, s)

TakeTurn(t, p) == IF Unique!Same(t.pfn_equality, p[1], p[2]) THEN Unique!Removed(t, p[1]) ELSE t
ShareTurn(t, p) == IF Unique!Same(t.pfn_equality, p[1], p[2]) THEN Unique!Added(t, p[1]) ELSE t

LEMMA TurnsAre ==
  ASSUME NEW n, NEW t, Proper(t, n), NEW p
  PROVE  /\ TakeTurn(t, p) = IF KeyOf[p[1]] = KeyOf[p[2]] THEN Unique!Removed(t, p[1]) ELSE t
         /\ ShareTurn(t, p) = IF KeyOf[p[1]] = KeyOf[p[2]] THEN Unique!Added(t, p[1]) ELSE t
BY Compares DEF TakeTurn, ShareTurn

LEMMA TakesAll ==
  ASSUME NEW a, NEW n \in Nat, NEW s, Len(s) = n, NEW S, NEW G \in [0..n -> SUBSET S], a \in G[0],
         \A k \in 1..n : \A t \in G[k - 1] : TakeTurn(t, s[k]) \in G[k]
  PROVE  Takes(a, s) \in G[n]
<1> DEFINE F == [k \in 1..n |-> [t \in S |-> TakeTurn(t, s[k])]]
           Turn(h) == [i \in 0..n |-> IF i = 0 THEN a ELSE TakeTurn(h[i - 1], s[i])]
           after == CHOOSE h : h = Turn(h)
<1>0. SUFFICES after[n] \in G[n]
  BY DEF Takes, TakeTurn, Unique!Through
<1>1. \A k \in 1..n : \A t \in S : F[k][t] = TakeTurn(t, s[k])
  OBVIOUS
<1>2. \A k \in 1..n : G[k - 1] \subseteq S /\ k - 1 \in 0..n
  OBVIOUS
<1> HIDE DEF F
<1>3. PICK f : Passes(f, n, S, a, F, G)
  <2>1. Leads(n, S, G, F)
    BY <1>1, <1>2 DEF Leads
  <2> QED
    BY <2>1, Guided
<1>4. \A k \in 1..n : f[k] = TakeTurn(f[k - 1], s[k])
  BY <1>1, <1>2, <1>3 DEF Passes
<1>5. \A i \in 0..n : i # 0 => i \in 1..n
  OBVIOUS
<1>6. f = Turn(f)
  BY <1>3, <1>4, <1>5 DEF Passes
<1>7. after = Turn(after)
  BY <1>6
<1> HIDE DEF after
<1>9. \A i \in 0..n : after[i] = IF i = 0 THEN a ELSE TakeTurn(after[i - 1], s[i])
  BY <1>7
<1> DEFINE I == {i \in 0..n : after[i] = f[i]}
<1>10. 0 \in I
  BY <1>3, <1>9 DEF Passes
<1>11. ASSUME NEW k \in 1..n, k - 1 \in I PROVE k \in I
  BY <1>4, <1>9, <1>11
<1> HIDE DEF I
<1>12. \A i \in 0..n : i \in I
  BY <1>10, <1>11, InductionUpTo
<1> QED
  BY <1>3, <1>12 DEF I, Passes

LEMMA SharesAll ==
  ASSUME NEW a, NEW n \in Nat, NEW s, Len(s) = n, NEW S, NEW G \in [0..n -> SUBSET S], a \in G[0],
         \A k \in 1..n : \A t \in G[k - 1] : ShareTurn(t, s[k]) \in G[k]
  PROVE  Shares(a, s) \in G[n]
<1> DEFINE F == [k \in 1..n |-> [t \in S |-> ShareTurn(t, s[k])]]
           Turn(h) == [i \in 0..n |-> IF i = 0 THEN a ELSE ShareTurn(h[i - 1], s[i])]
           after == CHOOSE h : h = Turn(h)
<1>0. SUFFICES after[n] \in G[n]
  BY DEF Shares, ShareTurn, Unique!Through
<1>1. \A k \in 1..n : \A t \in S : F[k][t] = ShareTurn(t, s[k])
  OBVIOUS
<1>2. \A k \in 1..n : G[k - 1] \subseteq S /\ k - 1 \in 0..n
  OBVIOUS
<1> HIDE DEF F
<1>3. PICK f : Passes(f, n, S, a, F, G)
  <2>1. Leads(n, S, G, F)
    BY <1>1, <1>2 DEF Leads
  <2> QED
    BY <2>1, Guided
<1>4. \A k \in 1..n : f[k] = ShareTurn(f[k - 1], s[k])
  BY <1>1, <1>2, <1>3 DEF Passes
<1>5. \A i \in 0..n : i # 0 => i \in 1..n
  OBVIOUS
<1>6. f = Turn(f)
  BY <1>3, <1>4, <1>5 DEF Passes
<1>7. after = Turn(after)
  BY <1>6
<1> HIDE DEF after
<1>9. \A i \in 0..n : after[i] = IF i = 0 THEN a ELSE ShareTurn(after[i - 1], s[i])
  BY <1>7
<1> DEFINE I == {i \in 0..n : after[i] = f[i]}
<1>10. 0 \in I
  BY <1>3, <1>9 DEF Passes
<1>11. ASSUME NEW k \in 1..n, k - 1 \in I PROVE k \in I
  BY <1>4, <1>9, <1>11
<1> HIDE DEF I
<1>12. \A i \in 0..n : i \in I
  BY <1>10, <1>11, InductionUpTo
<1> QED
  BY <1>3, <1>12 DEF I, Passes

LEMMA JoinsAll ==
  ASSUME NEW n \in Nat, NEW s, Len(s) = n, NEW S, NEW G \in [0..n -> SUBSET S], <<>> \in G[0],
         \A k \in 1..n : \A t \in G[k - 1] : t \o s[k] \in G[k]
  PROVE  Unique!Flat(s) \in G[n]
<1> DEFINE Join(x, y) == x \o y
           F == [k \in 1..n |-> [t \in S |-> Join(t, s[k])]]
           Turn(h) == [i \in 0..n |-> IF i = 0 THEN <<>> ELSE Join(h[i - 1], s[i])]
           after == CHOOSE h : h = Turn(h)
<1>0. SUFFICES after[n] \in G[n]
  BY DEF Unique!Through, Unique!Flat, Join
<1>13. \A k \in 1..n : \A t \in G[k - 1] : Join(t, s[k]) \in G[k]
  OBVIOUS
<1>1. \A k \in 1..n : \A t \in S : F[k][t] = Join(t, s[k])
  OBVIOUS
<1>2. \A k \in 1..n : G[k - 1] \subseteq S /\ k - 1 \in 0..n
  OBVIOUS
<1> HIDE DEF F, Join
<1>3. PICK f : Passes(f, n, S, <<>>, F, G)
  <2>1. Leads(n, S, G, F)
    BY <1>1, <1>2, <1>13 DEF Leads
  <2> QED
    BY <2>1, Guided
<1>4. \A k \in 1..n : f[k] = Join(f[k - 1], s[k])
  BY <1>1, <1>2, <1>3 DEF Passes
<1>5. \A i \in 0..n : i # 0 => i \in 1..n
  OBVIOUS
<1>6. f = Turn(f)
  BY <1>3, <1>4, <1>5 DEF Passes
<1>7. after = Turn(after)
  BY <1>6
<1> HIDE DEF after
<1>9. \A i \in 0..n : after[i] = IF i = 0 THEN <<>> ELSE Join(after[i - 1], s[i])
  BY <1>7
<1> DEFINE I == {i \in 0..n : after[i] = f[i]}
<1>10. 0 \in I
  BY <1>3, <1>9 DEF Passes
<1>11. ASSUME NEW k \in 1..n, k - 1 \in I PROVE k \in I
  BY <1>4, <1>9, <1>11
<1> HIDE DEF I
<1>12. \A i \in 0..n : i \in I
  BY <1>10, <1>11, InductionUpTo
<1> QED
  BY <1>3, <1>12 DEF I, Passes
-----------------------------------------------------------------------------
(* A set made of a sequence has of each key the first element. *)

Leading(s, i) == \A j \in 1..i - 1 : KeyOf[s[j]] # KeyOf[s[i]]

(* After k additions to an empty set. *)
Gathers(s, k, t, m) ==
  /\ Proper(t, m) /\ t.count <= k
  /\ \A x \in 0..t.count - 1 : \E i \in 1..k : t.elements[x] = s[i] /\ Leading(s, i)
  /\ \A i \in 1..k : \E x \in 0..t.count - 1 : KeyOf[t.elements[x]] = KeyOf[s[i]]
  /\ (\A i \in 1..k : Leading(s, i)) => t.count = k /\ \A x \in 0..k - 1 : t.elements[x] = s[x + 1]

LEMMA GathersOne ==
  ASSUME NEW m \in Nat, NEW s \in Seq(Element), Len(s) <= m, NEW k \in 1..Len(s),
         NEW t, Gathers(s, k - 1, t, m)
  PROVE  Gathers(s, k, Unique!Added(t, s[k]), m)
<1>1. PICK e \in Element : e = s[k]
  OBVIOUS
<1>2. PICK c \in 0..m : c = t.count /\ c <= k - 1 /\ c < m
  BY DEF Gathers, Proper, SetOfSize
<1>3. Proper(t, m)
  BY DEF Gathers
<1>4. /\ Unique!Equals(t, e) = {} <=> \A x \in Members(t) : KeyOf[x] # KeyOf[e]
      /\ \A r \in Unique!Equals(t, e) : r \in 0..t.count - 1 /\ KeyOf[t.elements[r]] = KeyOf[e]
  BY <1>3, EqualsIs
<1>5. \A i \in 1..k : i = k \/ i \in 1..k - 1
  OBVIOUS
<1>6. \A i \in 1..k - 1 : i \in 1..k
  OBVIOUS
<1>9. /\ \A x \in 0..c - 1 : \E i \in 1..k - 1 : t.elements[x] = s[i] /\ Leading(s, i)
      /\ \A i \in 1..k - 1 : \E x \in 0..c - 1 : KeyOf[t.elements[x]] = KeyOf[s[i]]
  BY <1>2 DEF Gathers
<1>7. CASE Unique!Equals(t, e) = {}
  <2> DEFINE u == Unique!Store(t, e)
  <2>1. Unique!Added(t, e) = u
    BY <1>7 DEF Unique!Added
  <2>2. /\ Proper(u, m) /\ u.count = c + 1 /\ u.elements[c] = e
        /\ \A x \in 0..c - 1 : u.elements[x] = t.elements[x]
    BY <1>2, <1>3, <1>4, <1>7, StoreIs
  <2> HIDE DEF u
  <2>3. Leading(s, k)
    <3>1. \A x \in 0..c - 1 : KeyOf[t.elements[x]] # KeyOf[e]
      BY <1>2, <1>4, <1>7 DEF Members
    <3> QED
      BY <1>1, <1>2, <3>1 DEF Leading, Gathers
  <2>4. \A x \in 0..u.count - 1 : x = c \/ x \in 0..c - 1
    BY <1>2, <2>2
  <2>5. \A x \in 0..c - 1 : x \in 0..u.count - 1
    BY <1>2, <2>2
  <2>6. \A x \in 0..u.count - 1 : \E i \in 1..k : u.elements[x] = s[i] /\ Leading(s, i)
    <3>1. ASSUME NEW x \in 0..c - 1
          PROVE  \E i \in 1..k : u.elements[x] = s[i] /\ Leading(s, i)
      <4>1. PICK i \in 1..k - 1 : t.elements[x] = s[i] /\ Leading(s, i)
        BY <1>9
      <4> QED
        BY <1>6, <2>2, <4>1
    <3>2. k \in 1..k
      OBVIOUS
    <3> QED
      BY <1>1, <2>2, <2>3, <2>4, <3>1, <3>2
  <2>7. \A i \in 1..k : \E x \in 0..u.count - 1 : KeyOf[u.elements[x]] = KeyOf[s[i]]
    <3>1. c \in 0..u.count - 1
      BY <1>2, <2>2
    <3>2. ASSUME NEW i \in 1..k - 1
          PROVE  \E x \in 0..u.count - 1 : KeyOf[u.elements[x]] = KeyOf[s[i]]
      <4>1. PICK x \in 0..c - 1 : KeyOf[t.elements[x]] = KeyOf[s[i]]
        BY <1>9
      <4> QED
        BY <2>2, <2>5, <4>1
    <3> QED
      BY <1>1, <1>5, <2>2, <3>1, <3>2
  <2>8. ASSUME \A i \in 1..k : Leading(s, i)
        PROVE  u.count = k /\ \A x \in 0..k - 1 : u.elements[x] = s[x + 1]
    <3>1. c = k - 1 /\ \A x \in 0..k - 2 : t.elements[x] = s[x + 1]
      BY <1>2, <1>6, <2>8 DEF Gathers
    <3>2. \A x \in 0..k - 1 : x = k - 1 \/ x \in 0..k - 2
      OBVIOUS
    <3>3. (k - 1) + 1 = k
      OBVIOUS
    <3> QED
      BY <1>1, <2>2, <3>1, <3>2, <3>3
  <2>9. u.count <= k
    BY <1>2, <2>2
  <2> QED
    BY <1>1, <2>1, <2>2, <2>6, <2>7, <2>8, <2>9 DEF Gathers
<1>8. CASE Unique!Equals(t, e) # {}
  <2>1. Unique!Added(t, e) = t
    BY <1>8 DEF Unique!Added
  <2>2. PICK r \in 0..c - 1 : KeyOf[t.elements[r]] = KeyOf[e]
    BY <1>2, <1>4, <1>8
  <2>3. PICK i \in 1..k - 1 : t.elements[r] = s[i]
    BY <1>2, <2>2 DEF Gathers
  <2>4. ~Leading(s, k)
    BY <1>1, <2>2, <2>3 DEF Leading
  <2>5. k \in 1..k
    OBVIOUS
  <2>6. \A x \in 0..c - 1 : \E j \in 1..k : t.elements[x] = s[j] /\ Leading(s, j)
    BY <1>6, <1>9
  <2>7. \A j \in 1..k : \E x \in 0..c - 1 : KeyOf[t.elements[x]] = KeyOf[s[j]]
    BY <1>1, <1>5, <1>9, <2>2
  <2>8. ~\A j \in 1..k : Leading(s, j)
    BY <2>4, <2>5
  <2>9. c <= k
    BY <1>2
  <2>10. Gathers(s, k, t, m)
    <3>1. t.count = c
      BY <1>2
    <3> QED
      BY <1>3, <2>6, <2>7, <2>8, <2>9, <3>1 DEF Gathers
  <2> QED
    BY <1>1, <2>1, <2>10
<1> QED
  BY <1>7, <1>8

LEMMA Gathered ==
  ASSUME NEW m \in Nat, NEW s \in Seq(Element), Len(s) <= m
  PROVE  Gathers(s, Len(s), Unique!Through(Unique!Added, Unique!Construct(m, "compare"), s), m)
<1> DEFINE n == Len(s)
           S == SetOfSize(m)
           G == [k \in 0..n |-> {t \in S : Gathers(s, k, t, m)}]
           a == Unique!Construct(m, "compare")
<1>1. n \in Nat
  OBVIOUS
<1>2. \A t, k : Gathers(s, k, t, m) => t \in S
  BY DEF Gathers, Proper
<1>3. Gathers(s, 0, a, m)
  BY NewIsProper DEF Gathers
<1> HIDE DEF S, a
<1>4. G \in [0..n -> SUBSET S] /\ a \in G[0]
  BY <1>1, <1>2, <1>3
<1>5. \A k \in 1..n : k - 1 \in 0..n /\ k \in 0..n
  OBVIOUS
<1>6. ASSUME NEW k \in 1..n, NEW t \in G[k - 1] PROVE Unique!Added(t, s[k]) \in G[k]
  BY <1>2, <1>5, GathersOne
<1>7. \A t \in G[n] : Gathers(s, n, t, m)
  BY <1>1
<1> HIDE DEF G
<1>8. Unique!Through(Unique!Added, a, s) \in G[n]
  <2> HIDE DEF n
  <2>1. Len(s) = n
    BY DEF n
  <2> QED
    BY <1>1, <1>4, <1>6, <2>1, AddsAll
<1> QED
  BY <1>7, <1>8 DEF a

LEMMA ProperIsDistinct ==
  ASSUME NEW n \in Nat, NEW t, Proper(t, n)
  PROVE  Unique!Distinct(t)
<1> DEFINE s == Unique!Contents(t)
           u == Unique!Unpack(Unique!Pack(t), t.pfn_equality)
<1>1. /\ s \in Seq(Element) /\ Len(s) = t.count /\ t.count \in Nat
      /\ \A i \in 1..t.count : s[i] = t.elements[i - 1] /\ i - 1 \in 0..t.count - 1
  BY MembersAre
<1>3. ASSUME t.count > 0
      PROVE  u = Unique!Through(Unique!Added, Unique!Construct(Len(s), "compare"), s)
  <2>1. s # <<>> /\ t.pfn_equality = "compare"
    BY <1>1, <1>3, Compares
  <2> QED
    BY <2>1 DEF Unique!Unpack, Unique!Pack, Unique!FromElements
<1> HIDE DEF s, u
<1>2. ASSUME NEW i \in 1..t.count, NEW j \in 1..t.count, KeyOf[s[i]] = KeyOf[s[j]]
      PROVE  i = j
  <2>1. i - 1 \in 0..t.count - 1 /\ j - 1 \in 0..t.count - 1
    BY <1>1
  <2>2. i - 1 = j - 1
    <3>1. \A x, y \in 0..t.count - 1 : KeyOf[t.elements[x]] = KeyOf[t.elements[y]] => x = y
      BY DEF Proper
    <3>2. s[i] = t.elements[i - 1] /\ s[j] = t.elements[j - 1]
      BY <1>1
    <3> QED
      BY <1>2, <2>1, <3>1, <3>2
  <2> QED
    BY <2>2
<1>4. ASSUME t.count > 0 PROVE Unique!Contents(u) = s
  <2>1. Gathers(s, Len(s), u, Len(s))
    BY <1>1, <1>3, <1>4, Gathered
  <2>2. \A i \in 1..Len(s) : Leading(s, i)
    BY <1>1, <1>2 DEF Leading
  <2>3. Proper(u, Len(s)) /\ u.count = Len(s) /\ \A x \in 0..Len(s) - 1 : u.elements[x] = s[x + 1]
    BY <2>1, <2>2 DEF Gathers
  <2>4. /\ Unique!Contents(u) \in Seq(Element) /\ Len(Unique!Contents(u)) = Len(s)
        /\ \A i \in 1..Len(s) : Unique!Contents(u)[i] = u.elements[i - 1] /\ i - 1 \in 0..Len(s) - 1
    BY <1>1, <2>3, MembersAre
  <2>5. \A i \in 1..Len(s) : (i - 1) + 1 = i
    OBVIOUS
  <2>6. \A i \in 1..Len(s) : Unique!Contents(u)[i] = s[i]
    BY <2>3, <2>4, <2>5
  <2> QED
    BY <1>1, <2>4, <2>6, SeqEqual
<1> QED
  BY <1>2, <1>4, Compares DEF Unique!Distinct, s, u

(* The invariant of a set: one whose function compares keys is proper.     *)
SetInv ==
  /\ Unique!TypeOK
  /\ obj.pfn_equality = "compare" => \E n \in 1..Size : Proper(obj, n)

(* The sets of a size, and with the function of a kind.                    *)
Sized(n, F) ==
  [max : {n}, count : 0..n, elements : [0..n - 1 -> Element \cup {Null}], pfn_equality : F]

LEMMA SizedIs ==
  ASSUME NEW n \in Nat, NEW F, NEW t \in Sized(n, F)
  PROVE  /\ \A e \in Element : t.count < n => Unique!Store(t, e) \in Sized(n, F)
         /\ \A s \in 0..t.count - 1 : Unique!Vacate(t, s) \in Sized(n, F)
         /\ \A f \in F : Unique!Construct(n, f) \in Sized(n, F)
<1>1. PICK c \in 0..n : c = t.count
  BY DEF Sized
<1>2. PICK d \in [0..n - 1 -> Element \cup {Null}] : d = t.elements
  BY DEF Sized
<1>3. PICK f \in F : f = t.pfn_equality
  BY DEF Sized
<1>4. \A g \in [0..n - 1 -> Element \cup {Null}], k \in 0..n :
        [t EXCEPT !.elements = g, !.count = k] \in Sized(n, F)
  BY <1>3 DEF Sized
<1>5. ASSUME NEW e \in Element, c < n PROVE Unique!Store(t, e) \in Sized(n, F)
  <2>1. Unique!Store(t, e) = [t EXCEPT !.elements = [d EXCEPT ![c] = e], !.count = c + 1]
    BY <1>1, <1>2 DEF Unique!Store, Sized
  <2>2. [d EXCEPT ![c] = e] \in [0..n - 1 -> Element \cup {Null}] /\ c + 1 \in 0..n
    BY <1>5
  <2> QED
    BY <1>4, <2>1, <2>2
<1>6. ASSUME NEW s \in 0..c - 1 PROVE Unique!Vacate(t, s) \in Sized(n, F)
  <2> DEFINE g == [x \in 0..n - 1 |-> IF x = c - 1 THEN Null ELSE IF x = s THEN d[c - 1] ELSE d[x]]
  <2>1. Unique!Vacate(t, s) = [t EXCEPT !.elements = g, !.count = c - 1]
    BY <1>1, <1>2 DEF Unique!Vacate, Sized
  <2>2. c - 1 \in 0..n - 1 /\ c - 1 \in 0..n
    BY <1>6
  <2>3. g \in [0..n - 1 -> Element \cup {Null}]
    BY <2>2
  <2> HIDE DEF g
  <2> QED
    BY <1>4, <2>1, <2>2, <2>3
<1>7. \A q \in F : Unique!Construct(n, q) \in Sized(n, F)
  BY DEF Unique!Construct, Sized
<1> QED
  BY <1>1, <1>5, <1>6, <1>7

LEMMA TypedIs == Unique!TypeOK <=> \E n \in 1..Size : obj \in Sized(n, Unique!Equality)
BY DEF Unique!TypeOK, Sized

LEMMA SetTyped == SetInv => Unique!TypeOK
BY DEF SetInv

LEMMA ProperStarts == Unique!Init => SetInv
<1> SUFFICES ASSUME NEW n \in 1..Size, NEW f \in Unique!Equality, obj = Unique!Construct(n, f)
             PROVE  SetInv
  BY DEF Unique!Init
<1>1. n \in Nat
  BY SizeIs
<1>2. obj \in Sized(n, Unique!Equality)
  BY <1>1 DEF Unique!Construct, Sized
<1>3. obj.pfn_equality = "compare" => Proper(obj, n)
  BY <1>1, NewIsProper DEF Unique!Construct
<1> QED
  BY <1>2, <1>3, TypedIs DEF SetInv

(* What a removal looks for is found.                                      *)
LEMMA FirstEqual ==
  ASSUME NEW t, t.count \in Nat, NEW e, Unique!Equals(t, e) # {}
  PROVE  (CHOOSE s \in Unique!Equals(t, e) : \A x \in Unique!Equals(t, e) : s <= x)
           \in 0..t.count - 1
<1>1. Unique!Equals(t, e) \in SUBSET Nat /\ Unique!Equals(t, e) \subseteq 0..t.count - 1
  BY DEF Unique!Equals
<1>2. PICK s \in Unique!Equals(t, e) : \A x \in Unique!Equals(t, e) : s <= x
  BY <1>1, LeastElement
<1> QED
  BY <1>1, <1>2

(* Whatever the function.                                                  *)
LEMMA TypedKeeps == Unique!TypeOK /\ Unique!Next => Unique!TypeOK'
<1> SUFFICES ASSUME NEW n \in 1..Size, obj \in Sized(n, Unique!Equality), Unique!Next
             PROVE  obj' \in Sized(n, Unique!Equality)
  BY TypedIs DEF Unique!TypeOK, Sized
<1>1. /\ n \in Nat /\ obj.max = n /\ obj.count \in 0..n /\ obj.count \in Nat
      /\ obj.pfn_equality \in Unique!Equality
  BY SizeIs DEF Sized
<1>2. /\ \A e \in Element : obj.count < n => Unique!Store(obj, e) \in Sized(n, Unique!Equality)
      /\ \A s \in 0..obj.count - 1 : Unique!Vacate(obj, s) \in Sized(n, Unique!Equality)
      /\ \A f \in Unique!Equality : Unique!Construct(n, f) \in Sized(n, Unique!Equality)
  BY <1>1, SizedIs
<1>3. ASSUME NEW e \in Element, Unique!Add(e) PROVE obj' \in Sized(n, Unique!Equality)
  BY <1>1, <1>2, <1>3 DEF Unique!Add, Unique!HasRoom, Unique!Added
<1>4. ASSUME NEW e \in Element, Unique!RemoveElement(e) PROVE obj' \in Sized(n, Unique!Equality)
  BY <1>1, <1>2, <1>4, FirstEqual DEF Unique!RemoveElement, Unique!HasRoom, Unique!Removed
<1>5. CASE Unique!Pop
  BY <1>1, <1>2, <1>5 DEF Unique!Pop
<1>6. CASE Unique!See
  BY <1>6 DEF Unique!See
<1>7. CASE Unique!Renew
  BY <1>1, <1>2, <1>7 DEF Unique!Renew
<1> QED
  BY <1>3, <1>4, <1>5, <1>6, <1>7 DEF Unique!Next

(* The function is that of the constructor.                                *)
LEMMA FunctionKept ==
  ASSUME Unique!TypeOK, Unique!Next PROVE obj'.pfn_equality = obj.pfn_equality
<1>1. PICK n \in 1..Size : obj \in Sized(n, Unique!Equality)
  BY TypedIs
<1> DEFINE f == obj.pfn_equality
<1>2. /\ n \in Nat /\ obj \in Sized(n, {f}) /\ obj.max = n
      /\ obj.count \in 0..n /\ obj.count \in Nat
  BY <1>1, SizeIs DEF Sized
<1> HIDE DEF f
<1>3. /\ \A e \in Element : obj.count < n => Unique!Store(obj, e) \in Sized(n, {f})
      /\ \A s \in 0..obj.count - 1 : Unique!Vacate(obj, s) \in Sized(n, {f})
      /\ Unique!Construct(n, f) \in Sized(n, {f})
  BY <1>2, SizedIs
<1>4. SUFFICES obj' \in Sized(n, {f})
  BY DEF Sized, f
<1>5. ASSUME NEW e \in Element, Unique!Add(e) PROVE obj' \in Sized(n, {f})
  BY <1>2, <1>3, <1>5 DEF Unique!Add, Unique!HasRoom, Unique!Added
<1>6. ASSUME NEW e \in Element, Unique!RemoveElement(e) PROVE obj' \in Sized(n, {f})
  <2>1. CASE Unique!Equals(obj, e) = {}
    BY <1>2, <1>3, <1>6, <2>1 DEF Unique!RemoveElement, Unique!HasRoom, Unique!Removed
  <2>2. CASE Unique!Equals(obj, e) # {}
    <3> DEFINE s == CHOOSE s \in Unique!Equals(obj, e) : \A x \in Unique!Equals(obj, e) : s <= x
    <3>1. s \in 0..obj.count - 1
      BY <1>2, <2>2, FirstEqual
    <3>2. obj' = Unique!Vacate(obj, s)
      BY <1>6, <2>2 DEF Unique!RemoveElement, Unique!Removed
    <3> HIDE DEF s
    <3> QED
      BY <1>3, <3>1, <3>2
  <2> QED
    BY <2>1, <2>2
<1>7. CASE Unique!Pop
  <2>1. obj.count - 1 \in 0..obj.count - 1 /\ obj' = Unique!Vacate(obj, obj.count - 1)
    BY <1>2, <1>7 DEF Unique!Pop
  <2> QED
    BY <1>3, <2>1
<1>8. CASE Unique!See
  BY <1>2, <1>8 DEF Unique!See
<1>9. CASE Unique!Renew
  BY <1>2, <1>3, <1>9 DEF Unique!Renew, f
<1> QED
  BY <1>5, <1>6, <1>7, <1>8, <1>9 DEF Unique!Next

LEMMA ProperKeeps == SetInv /\ Unique!Next => SetInv'
<1> SUFFICES ASSUME SetInv, Unique!Next, obj.pfn_equality = "compare"
             PROVE  \E n \in 1..Size : Proper(obj', n)
  BY TypedKeeps, FunctionKept DEF SetInv
<1>1. PICK n \in 1..Size : Proper(obj, n)
  BY DEF SetInv
<1>2. SUFFICES Proper(obj', n)
  OBVIOUS
<1>3. n \in Nat
  BY SizeIs
<1>4. obj.max = n /\ obj.count \in 0..n
  BY <1>1 DEF Proper, SetOfSize
<1>5. ASSUME NEW e \in Element
      PROVE  /\ Unique!Equals(obj, e) = {} /\ obj.count < n => Proper(Unique!Store(obj, e), n)
             /\ \A s \in Unique!Equals(obj, e) : s \in 0..obj.count - 1
             /\ \A s, r \in Unique!Equals(obj, e) : s = r
  BY <1>1, <1>3, EqualsIs, StoreIs
<1>6. ASSUME NEW s \in 0..obj.count - 1 PROVE Proper(Unique!Vacate(obj, s), n)
  BY <1>1, <1>3, VacateIs
<1>7. ASSUME NEW e \in Element, Unique!Add(e) PROVE Proper(obj', n)
  BY <1>1, <1>4, <1>5, <1>7 DEF Unique!Add, Unique!HasRoom, Unique!Added
<1>8. ASSUME NEW e \in Element, Unique!RemoveElement(e) PROVE Proper(obj', n)
  <2>1. CASE Unique!Equals(obj, e) = {}
    BY <1>4, <1>5, <1>8, <2>1 DEF Unique!RemoveElement, Unique!HasRoom, Unique!Removed
  <2>2. CASE Unique!Equals(obj, e) # {}
    <3>1. PICK s \in Unique!Equals(obj, e) : \A r \in Unique!Equals(obj, e) : s = r
      BY <1>5, <2>2
    <3>2. s \in 0..obj.count - 1 /\ s <= s
      BY <1>4, <1>5
    <3>3. (CHOOSE r \in Unique!Equals(obj, e) : \A x \in Unique!Equals(obj, e) : r <= x) = s
      BY <3>1, <3>2
    <3> QED
      BY <1>6, <1>8, <2>2, <3>2, <3>3 DEF Unique!RemoveElement, Unique!Removed
  <2> QED
    BY <2>1, <2>2
<1>9. CASE Unique!Pop
  BY <1>4, <1>6, <1>9 DEF Unique!Pop
<1>10. CASE Unique!See
  BY <1>1, <1>10 DEF Unique!See
<1>11. CASE Unique!Renew
  BY <1>1, <1>3, <1>4, <1>11, Compares, NewIsProper DEF Unique!Renew
<1> QED
  BY <1>7, <1>8, <1>9, <1>10, <1>11 DEF Unique!Next

-----------------------------------------------------------------------------
(* The pairs of two sets' elements, each once. *)

Pair == Element \X Element

(* q has the pairs of the first k rows. *)
Rows(q, k, a, b) ==
  /\ q \in Seq(Pair)
  /\ \A i \in 1..Len(q) : \E x \in 0..k - 1 : \E y \in 0..b.count - 1 :
       q[i] = <<a.elements[x], b.elements[y]>>
  /\ \A x \in 0..k - 1 : \A y \in 0..b.count - 1 : \E i \in 1..Len(q) :
       q[i] = <<a.elements[x], b.elements[y]>>
  /\ \A i, j \in 1..Len(q) : q[i] = q[j] => i = j

LEMMA RowsOne ==
  ASSUME NEW m \in Nat, NEW n \in Nat, NEW a, NEW b, Proper(a, m), Proper(b, n),
         NEW k \in 1..a.count, NEW q, Rows(q, k - 1, a, b)
  PROVE  Rows(q \o [j \in 1..b.count |-> <<a.elements[k - 1], b.elements[j - 1]>>], k, a, b)
<1> DEFINE r == [j \in 1..b.count |-> <<a.elements[k - 1], b.elements[j - 1]>>]
           p == q \o r
<1>1. /\ a.count \in 0..m /\ b.count \in 0..n
      /\ \A x \in 0..a.count - 1 : a.elements[x] \in Element
      /\ \A x \in 0..b.count - 1 : b.elements[x] \in Element
      /\ \A x, y \in 0..a.count - 1 : a.elements[x] = a.elements[y] => x = y
      /\ \A x, y \in 0..b.count - 1 : b.elements[x] = b.elements[y] => x = y
  BY DEF Proper, SetOfSize
<1>2. PICK c \in Nat : c = b.count
  BY <1>1
<1>3. k - 1 \in 0..a.count - 1 /\ \A j \in 1..c : j - 1 \in 0..c - 1
  BY <1>1
<1>4. /\ r \in Seq(Pair) /\ Len(r) = c
      /\ \A j \in 1..c : r[j] = <<a.elements[k - 1], b.elements[j - 1]>>
  <2>1. r \in [1..c -> Pair]
    BY <1>1, <1>2, <1>3 DEF Pair
  <2>2. \A j \in 1..c : r[j] = <<a.elements[k - 1], b.elements[j - 1]>>
    BY <1>2
  <2> HIDE DEF r
  <2> QED
    BY <2>1, <2>2
<1> HIDE DEF r
<1>5. PICK l \in Nat : l = Len(q) /\ q \in Seq(Pair)
  BY DEF Rows
<1>6. /\ p \in Seq(Pair) /\ Len(p) = l + c
      /\ \A i \in 1..l + c : p[i] = IF i <= l THEN q[i] ELSE r[i - l]
  BY <1>4, <1>5, ConcatProperties
<1> HIDE DEF p
<1>7. \A i \in 1..l + c : \/ i \in 1..l /\ p[i] = q[i]
                          \/ i - l \in 1..c /\ ~(i <= l) /\ p[i] = r[i - l]
  BY <1>5, <1>6
<1>8. \A i \in 1..l : i \in 1..l + c /\ p[i] = q[i]
  BY <1>6
<1>9. \A j \in 1..c : l + j \in 1..l + c /\ p[l + j] = r[j]
  <2>1. \A j \in 1..c : l + j \in 1..l + c /\ ~(l + j <= l) /\ (l + j) - l = j
    OBVIOUS
  <2> QED
    BY <1>6, <2>1
<1>10. \A i \in 1..l : \E x \in 0..k - 2 : \E y \in 0..c - 1 :
         q[i] = <<a.elements[x], b.elements[y]>>
  <2> TAKE i \in 1..l
  <2>1. (k - 1) - 1 = k - 2
    OBVIOUS
  <2>2. PICK x \in 0..(k - 1) - 1, y \in 0..b.count - 1 : q[i] = <<a.elements[x], b.elements[y]>>
    BY <1>5 DEF Rows
  <2> QED
    BY <1>2, <2>1, <2>2
<1>11. \A i \in 1..l + c : \E x \in 0..k - 1 : \E y \in 0..c - 1 :
         p[i] = <<a.elements[x], b.elements[y]>>
  <2> TAKE i \in 1..l + c
  <2>1. CASE i \in 1..l /\ p[i] = q[i]
    <3>1. PICK x \in 0..k - 2, y \in 0..c - 1 : q[i] = <<a.elements[x], b.elements[y]>>
      BY <1>10, <2>1
    <3>2. x \in 0..k - 1
      OBVIOUS
    <3> QED
      BY <2>1, <3>1, <3>2
  <2>2. CASE i - l \in 1..c /\ p[i] = r[i - l]
    <3>1. k - 1 \in 0..k - 1
      BY <1>3
    <3> QED
      BY <1>3, <1>4, <2>2, <3>1
  <2> QED
    BY <1>7, <2>1, <2>2
<1>12. \A x \in 0..k - 1 : \A y \in 0..c - 1 : \E i \in 1..l + c :
         p[i] = <<a.elements[x], b.elements[y]>>
  <2> TAKE x \in 0..k - 1
  <2> TAKE y \in 0..c - 1
  <2>1. CASE x = k - 1
    <3>1. y + 1 \in 1..c /\ (y + 1) - 1 = y
      OBVIOUS
    <3> QED
      BY <1>4, <1>9, <2>1, <3>1
  <2>2. CASE x # k - 1
    <3>1. x \in 0..(k - 1) - 1
      BY <2>2
    <3>2. PICK i \in 1..l : q[i] = <<a.elements[x], b.elements[y]>>
      BY <1>2, <1>5, <3>1 DEF Rows
    <3> QED
      BY <1>8, <3>2
  <2> QED
    BY <2>1, <2>2
<1>13. ASSUME NEW i \in 1..l, NEW j \in 1..c PROVE q[i] # r[j]
  <2>1. PICK x \in 0..k - 2, y \in 0..c - 1 : q[i] = <<a.elements[x], b.elements[y]>>
    BY <1>10
  <2>2. r[j] = <<a.elements[k - 1], b.elements[j - 1]>>
    BY <1>4
  <2>3. x \in 0..a.count - 1 /\ x # k - 1
    BY <1>1
  <2>4. a.elements[x] # a.elements[k - 1]
    BY <1>1, <1>3, <2>3
  <2> QED
    BY <2>1, <2>2, <2>4
<1>14. ASSUME NEW i \in 1..c, NEW j \in 1..c, r[i] = r[j] PROVE i = j
  <2>1. b.elements[i - 1] = b.elements[j - 1]
    <3>1. r[i] = <<a.elements[k - 1], b.elements[i - 1]>>
      BY <1>4
    <3>2. r[j] = <<a.elements[k - 1], b.elements[j - 1]>>
      BY <1>4
    <3>3. r[i][2] = b.elements[i - 1] /\ r[j][2] = b.elements[j - 1]
      BY <3>1, <3>2
    <3> QED
      BY <1>14, <3>3
  <2>2. i - 1 = j - 1
    BY <1>1, <1>2, <1>3, <2>1
  <2> QED
    BY <2>2
<1>17. \A i, j \in 1..l : q[i] = q[j] => i = j
  BY <1>5 DEF Rows
<1>15. ASSUME NEW i \in 1..l + c, NEW j \in 1..l + c, p[i] = p[j] PROVE i = j
  <2>1. CASE i \in 1..l /\ p[i] = q[i]
    <3>1. CASE j \in 1..l /\ p[j] = q[j]
      BY <1>15, <1>17, <2>1, <3>1
    <3>2. CASE j - l \in 1..c /\ p[j] = r[j - l]
      BY <1>13, <1>15, <2>1, <3>2
    <3> QED
      BY <1>7, <3>1, <3>2
  <2>2. CASE i - l \in 1..c /\ p[i] = r[i - l]
    <3>1. CASE j \in 1..l /\ p[j] = q[j]
      BY <1>13, <1>15, <2>2, <3>1
    <3>2. CASE j - l \in 1..c /\ p[j] = r[j - l]
      <4>1. i - l = j - l
        BY <1>14, <1>15, <2>2, <3>2
      <4> QED
        BY <4>1
    <3> QED
      BY <1>7, <3>1, <3>2
  <2> QED
    BY <1>7, <2>1, <2>2
<1>16. Rows(p, k, a, b)
  <2>1. \A i, j \in 1..l + c : p[i] = p[j] => i = j
    BY <1>15
  <2>2. Len(p) = l + c /\ b.count = c /\ p \in Seq(Pair)
    BY <1>2, <1>6
  <2>3. \A i \in 1..Len(p) : \E x \in 0..k - 1 : \E y \in 0..b.count - 1 :
          p[i] = <<a.elements[x], b.elements[y]>>
    BY <1>11, <2>2
  <2>4. \A x \in 0..k - 1 : \A y \in 0..b.count - 1 : \E i \in 1..Len(p) :
          p[i] = <<a.elements[x], b.elements[y]>>
    BY <1>12, <2>2
  <2>5. \A i, j \in 1..Len(p) : p[i] = p[j] => i = j
    BY <2>1, <2>2
  <2> QED
    BY ONLY <2>2, <2>3, <2>4, <2>5 DEF Rows
<1> QED
  BY <1>16 DEF p, r

LEMMA PairsAre ==
  ASSUME NEW m \in Nat, NEW n \in Nat, NEW a, NEW b, Proper(a, m), Proper(b, n)
  PROVE  Rows(Unique!Pairs(a, b), a.count, a, b)
<1> DEFINE c == a.count
           s == [i \in 1..c |-> [j \in 1..b.count |-> <<a.elements[i - 1], b.elements[j - 1]>>]]
           S == Seq(Pair)
           G == [k \in 0..c |-> {q \in S : Rows(q, k, a, b)}]
<1>1. c \in Nat
  BY DEF Proper, SetOfSize
<1>2. \A q, k : Rows(q, k, a, b) => q \in S
  BY DEF Rows
<1>3. Rows(<<>>, 0, a, b)
  BY DEF Rows
<1>4. ASSUME NEW k \in 1..c, NEW q, Rows(q, k - 1, a, b) PROVE Rows(q \o s[k], k, a, b)
  <2>1. s[k] = [j \in 1..b.count |-> <<a.elements[k - 1], b.elements[j - 1]>>]
    BY <1>1
  <2> HIDE DEF s
  <2> QED
    BY <1>4, <2>1, RowsOne
<1>5. Len(s) = c
  <2>1. DOMAIN s = 1..c /\ s = [i \in 1..c |-> s[i]]
    OBVIOUS
  <2> HIDE DEF s
  <2> QED
    BY <1>1, <2>1
<1>6. Unique!Pairs(a, b) = Unique!Flat(s)
  BY DEF Unique!Pairs
<1> HIDE DEF S, s
<1>7. G \in [0..c -> SUBSET S] /\ <<>> \in G[0]
  BY <1>1, <1>2, <1>3
<1>8. \A k \in 1..c : k - 1 \in 0..c /\ k \in 0..c
  BY <1>1
<1>9. ASSUME NEW k \in 1..c, NEW q \in G[k - 1] PROVE q \o s[k] \in G[k]
  <2>1. Rows(q, k - 1, a, b)
    BY <1>8
  <2>2. Rows(q \o s[k], k, a, b)
    BY <1>4, <2>1
  <2> QED
    BY <1>2, <1>8, <2>2
<1>10. \A q \in G[c] : Rows(q, c, a, b)
  BY <1>1
<1> HIDE DEF G, c
<1>11. Unique!Flat(s) \in G[c]
  BY <1>1, <1>5, <1>7, <1>9, JoinsAll
<1> QED
  BY <1>6, <1>10, <1>11 DEF c

-----------------------------------------------------------------------------
(* Difference and intersection. *)

(* Fewer elements than a has, if one of a's is missing.                    *)
LEMMA FewerThan ==
  ASSUME NEW m \in Nat, NEW n \in Nat, NEW t, NEW a, Proper(t, m), Proper(a, n),
         Members(t) \subseteq Members(a), NEW x \in Members(a), x \notin Members(t)
  PROVE  t.count < a.count
<1>1. PICK c \in 0..m : c = t.count
  BY DEF Proper, SetOfSize
<1>2. PICK l \in 0..n : l = a.count
  BY DEF Proper, SetOfSize
<1> DEFINE e(i) == IF i = c THEN x ELSE t.elements[i]
           At(i, j) == j \in 0..l - 1 /\ a.elements[j] = e(i)
           f == [i \in 0..c |-> CHOOSE j : At(i, j)]
<1>3. \A i \in 0..c : i = c \/ i \in 0..c - 1
  OBVIOUS
<1>4. \A i \in 0..c : e(i) \in Members(a)
  BY <1>1, <1>3 DEF Members
<1>5. \A i \in 0..c : \E j : At(i, j)
  BY <1>2, <1>4 DEF Members
<1>6. ASSUME NEW i \in 0..c, NEW j \in 0..c, e(i) = e(j) PROVE i = j
  <2>1. \A y, z \in 0..c - 1 : t.elements[y] = t.elements[z] => y = z
    BY <1>1 DEF Proper
  <2>2. \A y \in 0..c - 1 : t.elements[y] # x
    BY <1>1 DEF Members
  <2> QED
    BY <1>3, <1>6, <2>1, <2>2
<1> HIDE DEF e
<1>7. \A i \in 0..c : f[i] \in 0..l - 1 /\ a.elements[f[i]] = e(i)
  <2> TAKE i \in 0..c
  <2> HIDE DEF At
  <2>1. At(i, f[i])
    BY <1>5
  <2> QED
    BY <2>1 DEF At
<1>8. f \in [0..c -> 0..l - 1]
  BY <1>7
<1> HIDE DEF f, At
<1>9. \A i, j \in 0..c : f[i] = f[j] => i = j
  BY <1>6, <1>7
<1>10. f \in Injection(0..c, 0..l - 1)
  BY <1>8, <1>9 DEF Injection, IsInjective
<1>11. Cardinality(0..c) <= Cardinality(0..l - 1)
  BY <1>10, FS_Injection, FS_Interval
<1>12. Cardinality(0..c) = c + 1 /\ Cardinality(0..l - 1) = l
  BY FS_Interval
<1> QED
  BY <1>1, <1>2, <1>11, <1>12

(* Among the first k pairs x comes with an element equal to it.            *)
Matched(p, k, x) == \E q \in 1..k : p[q][1] = x /\ KeyOf[p[q][1]] = KeyOf[p[q][2]]

PairOf(x, a, b) == x[1] \in Members(a) /\ x[2] \in Members(b) /\ x = <<x[1], x[2]>>

LEMMA PairIs ==
  ASSUME NEW a, NEW b, NEW p, Rows(p, a.count, a, b), NEW i \in 1..Len(p)
  PROVE  PairOf(p[i], a, b)
<1>1. PICK x \in 0..a.count - 1 : \E y \in 0..b.count - 1 :
        p[i] = <<a.elements[x], b.elements[y]>>
  BY DEF Rows
<1>2. PICK y \in 0..b.count - 1 : p[i] = <<a.elements[x], b.elements[y]>>
  BY <1>1
<1>3. p[i][1] = a.elements[x] /\ p[i][2] = b.elements[y]
  BY <1>2
<1> QED
  BY <1>2, <1>3 DEF Members, PairOf

LEMMA MatchedStep ==
  ASSUME NEW p, NEW n \in Nat, NEW k \in 1..n, NEW x
  PROVE  Matched(p, k, x) <=> \/ Matched(p, k - 1, x)
                              \/ p[k][1] = x /\ KeyOf[p[k][1]] = KeyOf[p[k][2]]
<1>1. \A q : q \in 1..k <=> q \in 1..k - 1 \/ q = k
  OBVIOUS
<1> QED
  BY <1>1 DEF Matched

LEMMA MatchedOnce ==
  ASSUME NEW m \in Nat, NEW n \in Nat, NEW a, NEW b, Proper(a, m), Proper(b, n),
         NEW p, Rows(p, a.count, a, b), NEW k \in 1..Len(p),
         KeyOf[p[k][1]] = KeyOf[p[k][2]]
  PROVE  ~Matched(p, k - 1, p[k][1])
<1> SUFFICES ASSUME NEW q \in 1..k - 1, p[q][1] = p[k][1], KeyOf[p[q][1]] = KeyOf[p[q][2]]
             PROVE  FALSE
  BY DEF Matched
<1>1. Len(p) \in Nat /\ q \in 1..Len(p) /\ q # k
  BY DEF Rows
<1>2. /\ p[q][2] \in Members(b) /\ p[k][2] \in Members(b)
      /\ p[q] = <<p[q][1], p[q][2]>> /\ p[k] = <<p[k][1], p[k][2]>>
  <2>1. p[q][2] \in Members(b) /\ p[q] = <<p[q][1], p[q][2]>>
    BY <1>1, PairIs DEF PairOf
  <2>2. p[k][2] \in Members(b) /\ p[k] = <<p[k][1], p[k][2]>>
    <3>1. PairOf(p[k], a, b)
      BY PairIs
    <3> QED
      BY <3>1 DEF PairOf
  <2> QED
    BY <2>1, <2>2
<1>3. p[q][2] = p[k][2]
  <2>1. \A x, y \in Members(b) : KeyOf[x] = KeyOf[y] => x = y
    BY MembersAre
  <2> QED
    BY <1>2, <2>1
<1>4. p[q] = p[k]
  BY <1>2, <1>3
<1> QED
  BY <1>1, <1>4 DEF Rows

LEMMA MatchedAll ==
  ASSUME NEW a, NEW b, NEW p, Rows(p, a.count, a, b), NEW x \in Members(a)
  PROVE  Matched(p, Len(p), x) <=> \E y \in Members(b) : KeyOf[x] = KeyOf[y]
<1>1. ASSUME NEW y \in Members(b), KeyOf[x] = KeyOf[y] PROVE Matched(p, Len(p), x)
  <2>1. PICK u \in 0..a.count - 1 : x = a.elements[u]
    BY DEF Members
  <2>2. PICK v \in 0..b.count - 1 : y = b.elements[v]
    BY DEF Members
  <2>3. PICK i \in 1..Len(p) : p[i] = <<x, y>>
    BY <2>1, <2>2 DEF Rows
  <2>4. p[i][1] = x /\ p[i][2] = y
    BY <2>3
  <2> QED
    BY <1>1, <2>4 DEF Matched
<1>2. ASSUME Matched(p, Len(p), x) PROVE \E y \in Members(b) : KeyOf[x] = KeyOf[y]
  <2>1. PICK q \in 1..Len(p) : p[q][1] = x /\ KeyOf[p[q][1]] = KeyOf[p[q][2]]
    BY <1>2 DEF Matched
  <2> QED
    BY <2>1, PairIs DEF PairOf
<1> QED
  BY <1>1, <1>2

(* What is left of M after k pairs. *)
Left(M, p, k) == {x \in M : ~Matched(p, k, x)}

(* Once taken out, an element is not met again.                            *)
LEMMA TakesOne ==
  ASSUME NEW m \in Nat, NEW n \in Nat, NEW a, NEW b, Proper(a, m), Proper(b, n),
         NEW p, Rows(p, a.count, a, b), NEW k \in 1..Len(p),
         NEW l \in Nat, NEW t, Proper(t, l),
         NEW M, Members(a) \subseteq M, \A x, y \in M : KeyOf[x] = KeyOf[y] => x = y,
         Members(t) = Left(M, p, k - 1)
  PROVE  LET u == TakeTurn(t, p[k])
         IN  Proper(u, l) /\ Members(u) = Left(M, p, k)
<1>1. PICK e \in Members(a) : e = p[k][1]
  BY PairIs DEF PairOf
<1>2. e \in Element /\ e \in M
  BY MembersAre
<1>0. Len(p) \in Nat
  BY DEF Rows
<1>3. \A x : Matched(p, k, x) <=> \/ Matched(p, k - 1, x)
                                  \/ e = x /\ KeyOf[e] = KeyOf[p[k][2]]
  BY <1>0, <1>1, MatchedStep
<1>4. CASE KeyOf[e] = KeyOf[p[k][2]]
  <2>1. ~Matched(p, k - 1, e)
    BY <1>1, <1>4, MatchedOnce
  <2>2. e \in Members(t)
    BY <1>2, <2>1 DEF Left
  <2>3. /\ Unique!Equals(t, e) # {}
        /\ \A s \in Unique!Equals(t, e) : s \in 0..t.count - 1 /\ KeyOf[t.elements[s]] = KeyOf[e]
        /\ \A s, r \in Unique!Equals(t, e) : s = r
    BY <1>2, <2>2, EqualsIs
  <2>4. PICK s \in Unique!Equals(t, e) : \A r \in Unique!Equals(t, e) : s = r
    BY <2>3
  <2>5. s \in 0..t.count - 1 /\ KeyOf[t.elements[s]] = KeyOf[e] /\ s <= s
    BY <2>3 DEF Proper, SetOfSize
  <2>6. (CHOOSE r \in Unique!Equals(t, e) : \A x \in Unique!Equals(t, e) : r <= x) = s
    BY <2>4, <2>5
  <2>7. t.elements[s] = e
    <3>1. t.elements[s] \in M
      BY <2>5 DEF Members, Left
    <3> QED
      BY <1>2, <2>5, <3>1
  <2>8. Unique!Removed(t, e) = Unique!Vacate(t, s)
    BY <2>3, <2>6 DEF Unique!Removed
  <2>9. Proper(Unique!Removed(t, e), l) /\ Members(Unique!Removed(t, e)) = Members(t) \ {e}
    BY <2>5, <2>7, <2>8, VacateIs
  <2>10. Members(t) \ {e} = Left(M, p, k)
    BY <1>3, <1>4 DEF Left
  <2> QED
    BY <1>1, <1>4, <2>9, <2>10, TurnsAre
<1>5. CASE KeyOf[e] # KeyOf[p[k][2]]
  <2>1. Left(M, p, k) = Left(M, p, k - 1)
    BY <1>3, <1>5 DEF Left
  <2> QED
    BY <1>1, <1>5, <2>1, TurnsAre
<1> QED
  BY <1>4, <1>5

(* There is room for what is in both.                                      *)
LEMMA SharesOne ==
  ASSUME NEW m \in Nat, NEW n \in Nat, NEW a, NEW b, Proper(a, m), Proper(b, n),
         NEW p, Rows(p, a.count, a, b), NEW k \in 1..Len(p),
         NEW l \in Nat, NEW t, Proper(t, l), a.count <= l,
         Members(t) = {x \in Members(a) : Matched(p, k - 1, x)}
  PROVE  LET u == ShareTurn(t, p[k])
         IN  Proper(u, l) /\ Members(u) = {x \in Members(a) : Matched(p, k, x)}
<1>1. PICK e \in Members(a) : e = p[k][1]
  BY PairIs DEF PairOf
<1>2. e \in Element /\ \A x, y \in Members(a) : KeyOf[x] = KeyOf[y] => x = y
  BY MembersAre
<1>0. Len(p) \in Nat
  BY DEF Rows
<1>3. \A x : Matched(p, k, x) <=> \/ Matched(p, k - 1, x)
                                  \/ e = x /\ KeyOf[e] = KeyOf[p[k][2]]
  BY <1>0, <1>1, MatchedStep
<1>4. CASE KeyOf[e] = KeyOf[p[k][2]]
  <2>1. \A x \in Members(t) : KeyOf[x] = KeyOf[e] => x = e
    BY <1>2
  <2>2. Unique!Equals(t, e) = {} <=> \A x \in Members(t) : KeyOf[x] # KeyOf[e]
    BY <1>2, EqualsIs
  <2>3. {x \in Members(a) : Matched(p, k, x)} = Members(t) \cup {e}
    BY <1>3, <1>4
  <2>4. CASE e \in Members(t)
    <3>1. Unique!Added(t, e) = t
      BY <2>2, <2>4 DEF Unique!Added
    <3>2. Members(t) \cup {e} = Members(t)
      BY <2>4
    <3> QED
      BY <1>1, <1>4, <2>3, <3>1, <3>2, TurnsAre
  <2>5. CASE e \notin Members(t)
    <3>1. \A x \in Members(t) : KeyOf[x] # KeyOf[e]
      BY <2>1, <2>5
    <3>2. t.count < a.count
      <4>1. Members(t) \subseteq Members(a)
        OBVIOUS
      <4> QED
        BY <2>5, <4>1, FewerThan
    <3>3. t.count < l
      BY <3>2 DEF Proper, SetOfSize
    <3>4. /\ Proper(Unique!Store(t, e), l)
          /\ Members(Unique!Store(t, e)) = Members(t) \cup {e}
      BY <1>2, <3>1, <3>3, StoreIs
    <3>5. Unique!Added(t, e) = Unique!Store(t, e)
      BY <2>2, <3>1 DEF Unique!Added
    <3> QED
      BY <1>1, <1>4, <2>3, <3>4, <3>5, TurnsAre
  <2> QED
    BY <2>4, <2>5
<1>5. CASE KeyOf[e] # KeyOf[p[k][2]]
  <2>1. {x \in Members(a) : Matched(p, k, x)} = {x \in Members(a) : Matched(p, k - 1, x)}
    BY <1>3, <1>5
  <2> QED
    BY <1>1, <1>5, <2>1, TurnsAre
<1> QED
  BY <1>4, <1>5

-----------------------------------------------------------------------------
(* What the three operations on two sets give. *)

LEMMA UnionIs ==
  ASSUME NEW m \in Nat, NEW n \in Nat, NEW a, NEW b, Proper(a, m), Proper(b, n),
         Unique!Combinable(a, b)
  PROVE  /\ Proper(Unique!Union(a, b), a.count + b.count)
         /\ Members(Unique!Union(a, b))
              = Members(a) \cup {y \in Members(b) : \A x \in Members(a) : KeyOf[x] # KeyOf[y]}
<1> DEFINE u == Unique!Union(a, b)
           A == Unique!Contents(a)
           B == Unique!Contents(b)
           s == A \o B
<1>1. PICK c \in Nat : c = a.count
  BY DEF Proper, SetOfSize
<1>2. PICK d \in Nat : d = b.count
  BY DEF Proper, SetOfSize
<1>3. /\ A \in Seq(Element) /\ Len(A) = c
      /\ \A i \in 1..c : A[i] = a.elements[i - 1] /\ i - 1 \in 0..c - 1
  BY <1>1, MembersAre
<1>4. /\ B \in Seq(Element) /\ Len(B) = d
      /\ \A i \in 1..d : B[i] = b.elements[i - 1] /\ i - 1 \in 0..d - 1
  BY <1>2, MembersAre
<1>5. u = Unique!Through(Unique!Added, Unique!Construct(c + d, "compare"), s)
  BY <1>1, <1>2, Compares DEF Unique!Union, Unique!Blank
<1> HIDE DEF A, B, u
<1>6. /\ s \in Seq(Element) /\ Len(s) = c + d
      /\ \A i \in 1..c + d : s[i] = IF i <= c THEN A[i] ELSE B[i - c]
  <2>1. /\ s \in Seq(Element) /\ Len(s) = Len(A) + Len(B)
        /\ \A i \in 1..Len(A) + Len(B) : s[i] = IF i <= Len(A) THEN A[i] ELSE B[i - Len(A)]
    BY <1>3, <1>4, ConcatProperties
  <2> QED
    BY <1>3, <1>4, <2>1
<1> HIDE DEF s
<1>7. Gathers(s, c + d, u, c + d)
  <2>1. c + d \in Nat /\ Len(s) <= c + d
    BY <1>6
  <2> QED
    BY <1>5, <1>6, <2>1, Gathered
<1>8. /\ \A x \in 0..c - 1 : s[x + 1] = a.elements[x] /\ x + 1 \in 1..c /\ x + 1 \in 1..c + d
      /\ \A y \in 0..d - 1 : s[c + y + 1] = b.elements[y] /\ c + y + 1 \in 1..c + d
  <2>1. \A x \in 0..c - 1 : x + 1 \in 1..c /\ x + 1 \in 1..c + d /\ x + 1 <= c /\ (x + 1) - 1 = x
    OBVIOUS
  <2>2. \A y \in 0..d - 1 : /\ c + y + 1 \in 1..c + d /\ ~(c + y + 1 <= c)
                            /\ (c + y + 1) - c = y + 1 /\ y + 1 \in 1..d /\ (y + 1) - 1 = y
    OBVIOUS
  <2> QED
    BY <1>3, <1>4, <1>6, <2>1, <2>2
<1>9. \A i \in 1..c + d : \/ \E x \in 0..c - 1 : i = x + 1 /\ s[i] = a.elements[x]
                          \/ \E y \in 0..d - 1 : i = c + y + 1 /\ s[i] = b.elements[y]
  <2> TAKE i \in 1..c + d
  <2>1. CASE i <= c
    <3>1. i - 1 \in 0..c - 1 /\ i = (i - 1) + 1
      BY <2>1
    <3> QED
      BY <1>8, <3>1
  <2>2. CASE ~(i <= c)
    <3>1. PICK y \in 0..d - 1 : i = c + y + 1
      <4>1. i - c - 1 \in 0..d - 1 /\ i = c + (i - c - 1) + 1
        BY <2>2
      <4> QED
        BY <4>1
    <3> QED
      BY <1>8, <3>1
  <2> QED
    BY <2>1, <2>2
<1>10. /\ \A x, y \in 0..c - 1 : KeyOf[a.elements[x]] = KeyOf[a.elements[y]] => x = y
       /\ \A x, y \in 0..d - 1 : KeyOf[b.elements[x]] = KeyOf[b.elements[y]] => x = y
  BY <1>1, <1>2 DEF Proper
<1>11. ASSUME NEW x \in 0..c - 1 PROVE Leading(s, x + 1)
  <2> SUFFICES ASSUME NEW j \in 1..(x + 1) - 1, KeyOf[s[j]] = KeyOf[s[x + 1]] PROVE FALSE
    BY DEF Leading
  <2>1. j - 1 \in 0..c - 1 /\ (j - 1) + 1 = j /\ j - 1 # x
    OBVIOUS
  <2>2. s[j] = a.elements[j - 1] /\ s[x + 1] = a.elements[x]
    BY <1>8, <2>1
  <2> QED
    BY <1>10, <2>1, <2>2
<1>12. ASSUME NEW y \in 0..d - 1
       PROVE  Leading(s, c + y + 1)
                <=> \A x \in 0..c - 1 : KeyOf[a.elements[x]] # KeyOf[b.elements[y]]
  <2>1. s[c + y + 1] = b.elements[y]
    BY <1>8
  <2>2. ASSUME Leading(s, c + y + 1), NEW x \in 0..c - 1
        PROVE  KeyOf[a.elements[x]] # KeyOf[b.elements[y]]
    <3>1. x + 1 \in 1..(c + y + 1) - 1
      OBVIOUS
    <3> QED
      BY <1>8, <2>1, <2>2, <3>1 DEF Leading
  <2>3. ASSUME \A x \in 0..c - 1 : KeyOf[a.elements[x]] # KeyOf[b.elements[y]],
               NEW j \in 1..(c + y + 1) - 1
        PROVE  KeyOf[s[j]] # KeyOf[s[c + y + 1]]
    <3>1. j \in 1..c + d
      OBVIOUS
    <3>2. CASE \E x \in 0..c - 1 : j = x + 1 /\ s[j] = a.elements[x]
      BY <2>1, <2>3, <3>2
    <3>3. CASE \E z \in 0..d - 1 : j = c + z + 1 /\ s[j] = b.elements[z]
      <4>1. PICK z \in 0..d - 1 : j = c + z + 1 /\ s[j] = b.elements[z]
        BY <3>3
      <4>2. z # y
        BY <4>1
      <4> QED
        BY <1>10, <2>1, <4>1, <4>2
    <3> QED
      BY <1>9, <3>1, <3>2, <3>3
  <2> QED
    BY <2>2, <2>3 DEF Leading
<1>13. \A x \in Members(u) : \E i \in 1..c + d : x = s[i] /\ Leading(s, i)
  BY <1>7 DEF Gathers, Members
<1>14. ASSUME NEW i \in 1..c + d, Leading(s, i) PROVE s[i] \in Members(u)
  <2>1. PICK z \in 0..u.count - 1 : KeyOf[u.elements[z]] = KeyOf[s[i]]
    BY <1>7 DEF Gathers
  <2>2. PICK j \in 1..c + d : u.elements[z] = s[j] /\ Leading(s, j)
    BY <1>7 DEF Gathers
  <2>3. i = j
    <3>1. ~(i < j)
      BY <2>1, <2>2 DEF Leading
    <3>2. ~(j < i)
      BY <1>14, <2>1, <2>2 DEF Leading
    <3> QED
      BY <3>1, <3>2
  <2> QED
    BY <2>2, <2>3 DEF Members
<1> DEFINE C == Members(a) \cup {y \in Members(b) : \A x \in Members(a) : KeyOf[x] # KeyOf[y]}
<1>15. /\ Members(a) = {a.elements[x] : x \in 0..c - 1}
       /\ Members(b) = {b.elements[y] : y \in 0..d - 1}
  BY <1>1, <1>2 DEF Members
<1>16. ASSUME NEW z \in Members(u) PROVE z \in C
  <2>1. PICK i \in 1..c + d : z = s[i] /\ Leading(s, i)
    BY <1>13
  <2>2. CASE \E x \in 0..c - 1 : i = x + 1 /\ s[i] = a.elements[x]
    BY <1>15, <2>1, <2>2
  <2>3. CASE \E y \in 0..d - 1 : i = c + y + 1 /\ s[i] = b.elements[y]
    <3>1. PICK y \in 0..d - 1 : i = c + y + 1 /\ s[i] = b.elements[y]
      BY <2>3
    <3>2. \A x \in 0..c - 1 : KeyOf[a.elements[x]] # KeyOf[b.elements[y]]
      BY <1>12, <2>1, <3>1
    <3> QED
      BY <1>15, <2>1, <3>1, <3>2
  <2> QED
    BY <1>9, <2>2, <2>3
<1>17. ASSUME NEW z \in C PROVE z \in Members(u)
  <2>1. CASE z \in Members(a)
    <3>1. PICK x \in 0..c - 1 : z = a.elements[x]
      BY <1>15, <2>1
    <3>2. x + 1 \in 1..c + d /\ z = s[x + 1]
      BY <1>8, <3>1
    <3> QED
      BY <1>11, <1>14, <3>2
  <2>2. CASE z \notin Members(a)
    <3>1. PICK y \in 0..d - 1 : z = b.elements[y]
      BY <1>15, <2>2
    <3>2. \A x \in 0..c - 1 : KeyOf[a.elements[x]] # KeyOf[b.elements[y]]
      BY <1>15, <2>2, <3>1
    <3>3. PICK i \in 1..c + d : i = c + y + 1 /\ z = s[i]
      BY <1>8, <3>1
    <3>4. Leading(s, i)
      BY <1>12, <3>2, <3>3
    <3> QED
      BY <1>14, <3>3, <3>4
  <2> QED
    BY <2>1, <2>2
<1> HIDE DEF C
<1>18. Members(u) = C
  BY <1>16, <1>17
<1> QED
  BY <1>1, <1>2, <1>7, <1>18 DEF Gathers, C, u

LEMMA DifferenceIs ==
  ASSUME NEW m \in Nat, NEW n \in Nat, NEW a, NEW b, Proper(a, m), Proper(b, n),
         Unique!Combinable(a, b)
  PROVE  /\ Proper(Unique!Difference(a, b), a.count + b.count)
         /\ Members(Unique!Difference(a, b))
              = {x \in Members(a) : \A y \in Members(b) : KeyOf[x] # KeyOf[y]}
                  \cup {y \in Members(b) : \A x \in Members(a) : KeyOf[x] # KeyOf[y]}
<1> DEFINE u == Unique!Difference(a, b)
           l == a.count + b.count
           o == Unique!Union(a, b)
           M == Members(o)
           New == {y \in Members(b) : \A x \in Members(a) : KeyOf[x] # KeyOf[y]}
           p == Unique!Pairs(a, b)
           N == Len(p)
           S == SetOfSize(l)
           Ok(k, t) == Proper(t, l) /\ Members(t) = Left(M, p, k)
           G == [k \in 0..N |-> {t \in S : Ok(k, t)}]
<1>1. a.count \in Nat /\ b.count \in Nat /\ l \in Nat
  BY DEF Proper, SetOfSize
<1>2. Proper(o, l) /\ M = Members(a) \cup New
  BY UnionIs
<1>3. Members(a) \subseteq M /\ \A x, y \in M : KeyOf[x] = KeyOf[y] => x = y
  BY <1>1, <1>2, MembersAre
<1>4. Rows(p, a.count, a, b)
  BY PairsAre
<1>5. N \in Nat
  BY <1>4 DEF Rows
<1>6. u = Takes(o, p)
  BY DEF Takes, Unique!Difference, Unique!Through
<1>7. \A k, t : Ok(k, t) => t \in S
  BY DEF Proper
<1>14. N = Len(p)
  OBVIOUS
<1> HIDE DEF o, p, S, l, N
<1>8. Ok(0, o)
  <2>1. \A x : ~Matched(p, 0, x)
    BY DEF Matched
  <2> QED
    BY <1>2, <2>1 DEF Left
<1> HIDE DEF M
<1>9. ASSUME NEW k \in 1..N, NEW t, Ok(k - 1, t)
      PROVE  Ok(k, TakeTurn(t, p[k]))
  <2>1. k \in 1..Len(p)
    BY <1>14
  <2>2. Proper(t, l) /\ Members(t) = Left(M, p, k - 1)
    BY <1>9
  <2>3. /\ Proper(TakeTurn(t, p[k]), l)
        /\ Members(TakeTurn(t, p[k])) = Left(M, p, k)
    BY ONLY m \in Nat, n \in Nat, Proper(a, m), Proper(b, n), <1>1, <1>3, <1>4, <2>1, <2>2, TakesOne
  <2> QED
    BY <2>3
<1> HIDE DEF Ok, u
<1>10. G \in [0..N -> SUBSET S] /\ o \in G[0]
  BY <1>5, <1>7, <1>8
<1>11. \A k \in 1..N : k - 1 \in 0..N /\ k \in 0..N
  BY <1>5
<1>12. ASSUME NEW k \in 1..N, NEW t \in G[k - 1]
       PROVE  TakeTurn(t, p[k]) \in G[k]
  BY <1>7, <1>9, <1>11
<1>13. \A t \in G[N] : Ok(N, t)
  BY <1>5
<1> HIDE DEF G
<1>15. Takes(o, p) \in G[N]
  BY <1>5, <1>10, <1>12, <1>14, TakesAll
<1>16. Ok(N, u)
  BY <1>6, <1>13, <1>15
<1>17. \A x \in Members(a) : Matched(p, N, x) <=> \E y \in Members(b) : KeyOf[x] = KeyOf[y]
  BY <1>4, <1>14, MatchedAll
<1>18. \A x \in New : ~Matched(p, N, x)
  <2> SUFFICES ASSUME NEW x \in New, NEW q \in 1..N, p[q][1] = x PROVE FALSE
    BY DEF Matched
  <2>1. p[q][1] \in Members(a)
    BY <1>4, <1>14, PairIs DEF PairOf
  <2> QED
    BY <2>1
<1>19. Left(M, p, N)
         = {x \in Members(a) : \A y \in Members(b) : KeyOf[x] # KeyOf[y]} \cup New
  BY <1>2, <1>17, <1>18 DEF Left
<1> QED
  BY <1>16, <1>19 DEF Ok, u, l

LEMMA IntersectionIs ==
  ASSUME NEW m \in Nat, NEW n \in Nat, NEW a, NEW b, Proper(a, m), Proper(b, n),
         Unique!Combinable(a, b)
  PROVE  /\ Proper(Unique!Intersection(a, b), a.count + b.count)
         /\ Members(Unique!Intersection(a, b))
              = {x \in Members(a) : \E y \in Members(b) : KeyOf[x] = KeyOf[y]}
<1> DEFINE u == Unique!Intersection(a, b)
           l == a.count + b.count
           o == Unique!Construct(l, "compare")
           p == Unique!Pairs(a, b)
           N == Len(p)
           S == SetOfSize(l)
           Ok(k, t) == Proper(t, l) /\ Members(t) = {x \in Members(a) : Matched(p, k, x)}
           G == [k \in 0..N |-> {t \in S : Ok(k, t)}]
<1>1. a.count \in Nat /\ b.count \in Nat /\ l \in Nat /\ a.count <= l
  BY DEF Proper, SetOfSize
<1>3. Proper(o, l) /\ Members(o) = {}
  BY <1>1, NewIsProper DEF Members
<1>4. Rows(p, a.count, a, b)
  BY PairsAre
<1>5. N \in Nat
  BY <1>4 DEF Rows
<1>6. u = Shares(o, p)
  <2>1. o = Unique!Blank(a, b)
    BY Compares DEF Unique!Blank
  <2> HIDE DEF o
  <2> QED
    BY <2>1 DEF Shares, Unique!Intersection, Unique!Through
<1>7. \A k, t : Ok(k, t) => t \in S
  BY DEF Proper
<1> HIDE DEF o, p, S, l
<1>8. Ok(0, o)
  <2>1. \A x : ~Matched(p, 0, x)
    BY DEF Matched
  <2> QED
    BY <1>3, <2>1
<1>9. ASSUME NEW k \in 1..N, NEW t, Ok(k - 1, t)
      PROVE  Ok(k, ShareTurn(t, p[k]))
  BY <1>1, <1>4, <1>9, SharesOne
<1> HIDE DEF Ok, N, u
<1>10. G \in [0..N -> SUBSET S] /\ o \in G[0]
  BY <1>5, <1>7, <1>8
<1>11. \A k \in 1..N : k - 1 \in 0..N /\ k \in 0..N
  BY <1>5
<1>12. ASSUME NEW k \in 1..N, NEW t \in G[k - 1]
       PROVE  ShareTurn(t, p[k]) \in G[k]
  BY <1>7, <1>9, <1>11
<1>13. \A t \in G[N] : Ok(N, t)
  BY <1>5
<1> HIDE DEF G
<1>14. N = Len(p)
  BY DEF N
<1>15. Shares(o, p) \in G[N]
  BY <1>5, <1>10, <1>12, <1>14, SharesAll
<1>16. Ok(N, u)
  BY <1>6, <1>13, <1>15
<1>17. \A x \in Members(a) : Matched(p, N, x) <=> \E y \in Members(b) : KeyOf[x] = KeyOf[y]
  BY <1>4, <1>14, MatchedAll
<1> QED
  BY <1>16, <1>17 DEF Ok, u, l

LEMMA HoldsIs ==
  ASSUME NEW m \in Nat, NEW t, Proper(t, m) PROVE Unique!Holds(t, Members(t))
<1>1. t.max = m /\ t.count <= m
  BY DEF Proper, SetOfSize
<1>2. Unique!Distinct(t)
  BY ProperIsDistinct
<1>3. Unique!Range(Unique!Contents(t)) = Members(t)
  BY MembersAre
<1> QED
  BY <1>1, <1>2, <1>3 DEF Unique!Holds

(* A set from elements has the function it was given.                      *)
LEMMA FromElementsIs ==
  ASSUME NEW n \in Nat, n > 0, NEW s \in [1..n -> Element], NEW f
  PROVE  Unique!FromElements(s, f).pfn_equality = f
<1> DEFINE S == [max : {n}, count : Nat, elements : [0..n - 1 -> Element \cup {Null}],
                 pfn_equality : {f}]
           G == [k \in 0..n |-> S]
           a == Unique!Construct(n, f)
<1>1. s \in Seq(Element) /\ Len(s) = n /\ s # <<>>
  OBVIOUS
<1>2. Unique!FromElements(s, f) = Unique!Through(Unique!Added, a, s)
  BY <1>1 DEF Unique!FromElements
<1>3. a \in S
  BY DEF Unique!Construct
<1>4. ASSUME NEW t \in S, NEW e \in Element PROVE Unique!Added(t, e) \in S
  <2> DEFINE g == [t.elements EXCEPT ![t.count] = e]
  <2>1. g \in [0..n - 1 -> Element \cup {Null}] /\ t.count + 1 \in Nat
    <3>1. PICK d \in [0..n - 1 -> Element \cup {Null}] : d = t.elements
      OBVIOUS
    <3>2. PICK c \in Nat : c = t.count
      OBVIOUS
    <3>3. [d EXCEPT ![c] = e] \in [0..n - 1 -> Element \cup {Null}]
      OBVIOUS
    <3> QED
      BY <3>1, <3>2, <3>3
  <2>2. Unique!Store(t, e) = [t EXCEPT !.elements = g, !.count = t.count + 1]
    BY DEF Unique!Store
  <2> HIDE DEF g
  <2>3. Unique!Store(t, e) \in S
    BY <2>1, <2>2
  <2> QED
    BY <2>3 DEF Unique!Added
<1>5. \A t \in S : t.pfn_equality = f
  OBVIOUS
<1> HIDE DEF S, a
<1>6. G \in [0..n -> SUBSET S] /\ a \in G[0]
  BY <1>3
<1>7. \A k \in 1..n : \A t \in G[k - 1] : Unique!Added(t, s[k]) \in G[k]
  BY <1>4
<1>8. Unique!Through(Unique!Added, a, s) \in G[n]
  <2> HIDE DEF G
  <2> QED
    BY <1>1, <1>6, <1>7, AddsAll
<1> QED
  BY <1>2, <1>5, <1>8

LEMMA OtherIsProper ==
  ASSUME NEW b \in Unique!Others, b.pfn_equality = "compare" PROVE \E n \in Nat : Proper(b, n)
<1>1. PICK f \in Unique!Equality :
        \/ b = Unique!Construct(1, f)
        \/ \E n \in 1..2 : \E s \in [1..n -> Element] : b = Unique!FromElements(s, f)
  BY DEF Unique!Others
<1>2. CASE b = Unique!Construct(1, f)
  <2>1. f = "compare"
    BY <1>2 DEF Unique!Construct
  <2> QED
    BY <1>2, <2>1, NewIsProper
<1>3. ASSUME NEW n \in 1..2, NEW s \in [1..n -> Element], b = Unique!FromElements(s, f)
      PROVE  \E k \in Nat : Proper(b, k)
  <2>1. n \in Nat /\ n > 0 /\ s \in Seq(Element) /\ Len(s) = n /\ s # <<>>
    OBVIOUS
  <2>2. f = "compare"
    BY <1>3, <2>1, FromElementsIs
  <2>3. b = Unique!Through(Unique!Added, Unique!Construct(n, "compare"), s)
    BY <1>3, <2>1, <2>2 DEF Unique!FromElements
  <2>4. Proper(b, n)
    BY <2>1, <2>3, Gathered DEF Gathers
  <2> QED
    BY <2>1, <2>4
<1> QED
  BY <1>1, <1>2, <1>3

LEMMA SetLawsHold == SetInv => Unique!Laws
<1> SUFFICES ASSUME SetInv, obj.pfn_equality = "compare"
             PROVE  Unique!Distinct(obj) /\ Unique!Algebra
  BY DEF Unique!Laws
<1>1. PICK m \in Nat : Proper(obj, m)
  BY SizeIs DEF SetInv
<1>2. Unique!Distinct(obj)
  BY <1>1, ProperIsDistinct
<1>3. ASSUME NEW other \in Unique!Others, Unique!Combinable(obj, other)
      PROVE  LET A == Unique!Range(Unique!Contents(obj))
                 B == Unique!Range(Unique!Contents(other))
                 Shared == {x \in A : \E y \in B : Unique!Same(obj.pfn_equality, x, y)}
                 New == {y \in B : \A x \in A : ~Unique!Same(obj.pfn_equality, x, y)}
             IN  /\ Unique!Holds(Unique!Union(obj, other), A \cup New)
                 /\ Unique!Holds(Unique!Difference(obj, other), (A \ Shared) \cup New)
                 /\ Unique!Holds(Unique!Intersection(obj, other), Shared)
  <2>1. PICK n \in Nat : Proper(other, n)
    BY <1>3, OtherIsProper DEF Unique!Combinable
  <2> DEFINE A == Members(obj)
             B == Members(other)
             Shared == {x \in A : \E y \in B : KeyOf[x] = KeyOf[y]}
             New == {y \in B : \A x \in A : KeyOf[x] # KeyOf[y]}
             Rest == {x \in A : \A y \in B : KeyOf[x] # KeyOf[y]}
  <2>2. A = Unique!Range(Unique!Contents(obj)) /\ B = Unique!Range(Unique!Contents(other))
    BY <1>1, <2>1, MembersAre
  <2>3. obj.count + other.count \in Nat
    BY <1>1, <2>1 DEF Proper, SetOfSize
  <2>4. Unique!Holds(Unique!Union(obj, other), A \cup New)
    <3> DEFINE u == Unique!Union(obj, other)
               C == A \cup New
    <3>1. Proper(u, obj.count + other.count) /\ Members(u) = C
      BY <1>1, <1>3, <2>1, UnionIs
    <3> HIDE DEF u, C
    <3>2. Unique!Holds(u, Members(u))
      BY <2>3, <3>1, HoldsIs
    <3> QED
      BY <3>1, <3>2 DEF u, C
  <2>5. Unique!Holds(Unique!Difference(obj, other), Rest \cup New)
    <3> DEFINE u == Unique!Difference(obj, other)
               C == Rest \cup New
    <3>1. Proper(u, obj.count + other.count) /\ Members(u) = C
      BY <1>1, <1>3, <2>1, DifferenceIs
    <3> HIDE DEF u, C
    <3>2. Unique!Holds(u, Members(u))
      BY <2>3, <3>1, HoldsIs
    <3> QED
      BY <3>1, <3>2 DEF u, C
  <2>6. Unique!Holds(Unique!Intersection(obj, other), Shared)
    <3> DEFINE u == Unique!Intersection(obj, other)
               C == Shared
    <3>1. Proper(u, obj.count + other.count) /\ Members(u) = C
      BY <1>1, <1>3, <2>1, IntersectionIs
    <3> HIDE DEF u, C
    <3>2. Unique!Holds(u, Members(u))
      BY <2>3, <3>1, HoldsIs
    <3> QED
      BY <3>1, <3>2 DEF u, C
  <2> HIDE DEF A, B
  <2>7. Rest = A \ Shared
    OBVIOUS
  <2>8. /\ Shared = {x \in A : \E y \in B : Unique!Same(obj.pfn_equality, x, y)}
        /\ New = {y \in B : \A x \in A : ~Unique!Same(obj.pfn_equality, x, y)}
    BY <1>1, Compares
  <2> HIDE DEF Rest, New, Shared
  <2> QED
    BY <2>2, <2>4, <2>5, <2>6, <2>7, <2>8
<1>4. ASSUME NEW other \in Unique!Others, ~Unique!Combinable(obj, other)
      PROVE  {Unique!Union(obj, other), Unique!Difference(obj, other),
              Unique!Intersection(obj, other)} = {Nothing}
  BY <1>4 DEF Unique!Union, Unique!Difference, Unique!Intersection
<1> QED
  BY <1>2, <1>3, <1>4 DEF Unique!Algebra

-----------------------------------------------------------------------------
(* Array: a signed index that is not rejected is one of a place counted,   *)
(* and an addition that leaves no room behind it doubles the room.         *)

ArrayInv == Vector!TypeOK /\ Vector!HasRoom

(* An array with its elements in n places, c of them counted.              *)
Shaped(a, c, n) ==
  /\ DOMAIN a = {"count", "max", "elements"}
  /\ a.count = c /\ a.max = n
  /\ a.elements \in [0..n - 1 -> Element \cup {Null}]
  /\ \A s \in 0..c - 1 : a.elements[s] \in Element

LEMMA ArrayInit == Vector!Init => ArrayInv
<1> SUFFICES ASSUME NEW n \in 1..Nodes, obj = Vector!Construct(n) PROVE ArrayInv
  BY DEF Vector!Init
<1> QED
  BY NodesIs DEF ArrayInv, Vector!TypeOK, Vector!HasRoom, Vector!Construct

LEMMA ShapedIs ==
  ASSUME NEW c \in 0..Nodes, NEW n \in Nat, c < n, Shaped(obj, c, n)' PROVE ArrayInv'
BY NodesIs DEF ArrayInv, Vector!TypeOK, Vector!HasRoom, Shaped

LEMMA IndexIs ==
  ASSUME NEW i \in Vector!Index, ~Vector!Rejected(i), obj.count \in Nat
  PROVE  Vector!Place(i) \in 0..obj.count - 1
BY DEF Vector!Index, Vector!Rejected, Vector!Place

LEMMA ArrayAdds ==
  ASSUME NEW a, NEW c \in Nat, NEW n \in Nat, c < n, Shaped(a, c, n), NEW e \in Element
  PROVE  \E m \in {n, 2 * n} : c + 1 < m /\ Shaped(Vector!Added(a, e), c + 1, m)
<1> DEFINE b == Vector!Stored(a, e)
<1>1. Shaped(b, c + 1, n)
  BY DEF Vector!Stored, Shaped
<1>2. CASE c + 1 < n
  BY <1>1, <1>2 DEF Vector!Added, Shaped
<1>3. CASE ~(c + 1 < n)
  <2> DEFINE d == Vector!Resized(b.elements, 2 * n)
  <2>1. Vector!Added(a, e) = [b EXCEPT !.max = 2 * n, !.elements = d]
    BY <1>1, <1>3 DEF Vector!Added, Shaped
  <2>2. d \in [0..2 * n - 1 -> Element \cup {Null}] /\ \A s \in 0..c : d[s] = b.elements[s]
    BY <1>1, <1>3 DEF Vector!Resized, Shaped
  <2> HIDE DEF d, b
  <2> DEFINE r == [b EXCEPT !.max = 2 * n, !.elements = d]
  <2>3. /\ DOMAIN r = {"count", "max", "elements"}
        /\ r.count = c + 1 /\ r.max = 2 * n /\ r.elements = d
    BY <1>1 DEF Shaped
  <2>4. \A s \in 0..(c + 1) - 1 : d[s] \in Element
    BY <1>1, <2>2 DEF Shaped
  <2>5. Shaped(r, c + 1, 2 * n)
    BY <2>2, <2>3, <2>4 DEF Shaped
  <2> QED
    BY <1>3, <2>1, <2>5
<1> QED
  BY <1>2, <1>3

LEMMA ArrayKeeps == ArrayInv /\ Vector!Next => ArrayInv'
<1> SUFFICES ASSUME ArrayInv, Vector!Next PROVE ArrayInv'
  OBVIOUS
<1> DEFINE c == obj.count
           n == obj.max
           d == obj.elements
<1>1. /\ c \in 0..Nodes /\ c \in Nat /\ n \in Nat /\ c < n
      /\ DOMAIN obj = {"count", "max", "elements"}
      /\ d \in [0..n - 1 -> Element \cup {Null}]
      /\ \A s \in 0..c - 1 : d[s] \in Element
  BY NodesIs DEF ArrayInv, Vector!TypeOK, Vector!HasRoom, Vector!Next
<1>2. Shaped(obj, c, n)
  BY <1>1 DEF Shaped
<1>3. ASSUME obj' = obj PROVE ArrayInv'
  BY <1>1, <1>2, <1>3, ShapedIs
<1>4. ASSUME NEW f \in [0..n - 1 -> Element \cup {Null}],
             \A s \in 0..c - 1 : f[s] \in Element,
             obj' = [obj EXCEPT !.elements = f]
      PROVE  ArrayInv'
  <2>1. Shaped(obj', c, n)
    BY <1>1, <1>4 DEF Shaped
  <2> QED
    BY <1>1, <2>1, ShapedIs DEF Shaped
<1>5. ASSUME NEW i \in Vector!Index, NEW e \in Element, Vector!Set(i, e) PROVE ArrayInv'
  <2>1. Vector!Place(i) \in 0..c - 1
    BY <1>1, <1>5, IndexIs DEF Vector!Set
  <2>2. obj' = [obj EXCEPT !.elements = [d EXCEPT ![Vector!Place(i)] = e]]
    BY <1>1, <1>5 DEF Vector!Set
  <2>3. /\ [d EXCEPT ![Vector!Place(i)] = e] \in [0..n - 1 -> Element \cup {Null}]
        /\ \A s \in 0..c - 1 : [d EXCEPT ![Vector!Place(i)] = e][s] \in Element
    BY <1>1, <2>1
  <2> QED
    BY <1>4, <2>2, <2>3
<1>6. ASSUME NEW e \in Element, Vector!Add(e) PROVE ArrayInv'
  <2>1. PICK m \in {n, 2 * n} : c + 1 < m /\ Shaped(Vector!Added(obj, e), c + 1, m)
    BY <1>1, <1>2, ArrayAdds
  <2>2. c + 1 \in 0..Nodes /\ m \in Nat
    BY <1>1, <1>6, NodesIs DEF Vector!Add, Vector!CountBound
  <2>3. Shaped(obj', c + 1, m)
    BY <1>6, <2>1 DEF Vector!Add
  <2> QED
    BY <2>1, <2>2, <2>3, ShapedIs DEF Shaped
<1>7. ASSUME NEW e \in Element, Vector!NoMemory(e) PROVE ArrayInv'
  <2>1. obj' = [obj EXCEPT !.elements = Vector!Unset, !.count = c + 1, !.max = 2 * n]
    BY <1>1, <1>7 DEF Vector!NoMemory
  <2>2. c + 1 \in 0..Nodes /\ 2 * n \in Nat
    BY <1>1, <1>7, NodesIs DEF Vector!NoMemory, Vector!CountBound
  <2>3. /\ DOMAIN obj' = {"count", "max", "elements"} /\ obj'.count = c + 1
        /\ obj'.max = 2 * n /\ obj'.elements = Vector!Unset
    BY <1>1, <2>1
  <2> QED
    BY <2>2, <2>3 DEF ArrayInv, Vector!TypeOK, Vector!HasRoom, Vector!Unset
<1>8. ASSUME NEW i \in Vector!Index, Vector!RemoveIndex(i) PROVE ArrayInv'
  <2> DEFINE p == Vector!Place(i)
             f == [s \in DOMAIN d |-> IF s \in p..c - 2 THEN d[s + 1] ELSE d[s]]
  <2>1. p \in 0..c - 1
    BY <1>1, <1>8, IndexIs DEF Vector!RemoveIndex
  <2>2. obj' = [obj EXCEPT !.count = c - 1, !.elements = f]
    BY <1>1, <1>8 DEF Vector!RemoveIndex, Vector!Removed
  <2>3. \A s \in p..c - 2 : d[s + 1] \in Element
    <3> SUFFICES ASSUME NEW s \in p..c - 2 PROVE s + 1 \in 0..c - 1
      BY <1>1
    <3> QED
      BY <1>1, <2>1
  <2>4. /\ f \in [0..n - 1 -> Element \cup {Null}]
        /\ \A s \in 0..(c - 1) - 1 : f[s] \in Element
    BY <1>1, <2>1, <2>3
  <2> HIDE DEF f
  <2>5. Shaped(obj', c - 1, n)
    BY <1>1, <2>2, <2>4 DEF Shaped
  <2>6. c - 1 \in 0..Nodes /\ c - 1 < n
    BY <1>1, <2>1, NodesIs
  <2> QED
    BY <1>1, <2>5, <2>6, ShapedIs DEF Shaped
<1>9. CASE Vector!Sort
  <2>1. PICK p \in [0..c - 1 -> 0..c - 1] : obj' = [obj EXCEPT !.elements =
          [s \in DOMAIN d |-> IF s \in 0..c - 1 THEN d[p[s]] ELSE d[s]]]
    BY <1>1, <1>9 DEF Vector!Sort
  <2> DEFINE f == [s \in DOMAIN d |-> IF s \in 0..c - 1 THEN d[p[s]] ELSE d[s]]
  <2>2. \A s \in 0..c - 1 : d[p[s]] \in Element
    BY <1>1
  <2>3. /\ f \in [0..n - 1 -> Element \cup {Null}]
        /\ \A s \in 0..c - 1 : f[s] \in Element
    BY <1>1, <2>2
  <2> QED
    BY <1>4, <2>1, <2>3
<1>10. ASSUME NEW g \in Transform, Vector!Map(g) PROVE ArrayInv'
  <2> DEFINE f == [s \in DOMAIN d |-> IF s < c THEN g[d[s]] ELSE d[s]]
  <2>1. obj' = [obj EXCEPT !.elements = f]
    BY <1>1, <1>10 DEF Vector!Map
  <2>2. \A x \in Element : g[x] \in Element
    BY <1>10, ElementIs
  <2>3. \A s \in 0..c - 1 : g[d[s]] \in Element
    BY <1>1, <2>2
  <2>4. /\ f \in [0..n - 1 -> Element \cup {Null}]
        /\ \A s \in 0..c - 1 : f[s] \in Element
    BY <1>1, <2>3
  <2> QED
    BY <1>4, <2>1, <2>4
<1>11. CASE Vector!Renew
  <2>1. PICK m \in 1..Nodes : obj' = Vector!Construct(m)
    BY <1>11 DEF Vector!Renew
  <2>2. Shaped(obj', 0, m)
    BY <2>1, NodesIs DEF Vector!Construct, Shaped
  <2> QED
    BY <2>2, NodesIs, ShapedIs DEF Shaped
<1> QED
  BY <1>3, <1>5, <1>6, <1>7, <1>8, <1>9, <1>10, <1>11
  DEF Vector!Next, Vector!Get, Vector!Fails, Vector!Slice, Vector!SeeAll, Vector!Count

-----------------------------------------------------------------------------
(* Cache: every operation moves or takes out one element, whose key no     *)
(* other one has.                                                          *)

CacheInv == Lru!TypeOK /\ Lru!Sound

(* d has elements of different keys, none released, in its first c places. *)
Keeps(d, c, f) ==
  /\ d \in [Lru!Slot -> Element \cup {Null}]
  /\ \A r, s \in 0..c - 1 : KeyOf[d[r]] = KeyOf[d[s]] => r = s
  /\ \A s \in 0..c - 1 : d[s] \in Element \ f
  /\ f \subseteq Element

LEMMA KeepsIs ==
  ASSUME CacheInv PROVE Keeps(obj.data, obj.count, aux)
BY DEF CacheInv, Lru!TypeOK, Lru!Sound, Lru!Held, Keeps

LEMMA PlaceIs ==
  ASSUME CacheInv, NEW k, Lru!Has(obj, k)
  PROVE  Lru!Place(obj, k) \in 0..obj.count - 1 /\ KeyOf[obj.data[Lru!Place(obj, k)]] = k
<1> DEFINE S == {s \in Lru!Held(obj) : KeyOf[obj.data[s]] = k}
<1>1. S \in SUBSET Nat /\ S # {}
  BY DEF CacheInv, Lru!TypeOK, Lru!Held, Lru!Has
<1>2. PICK s \in S : \A y \in S : s <= y
  BY <1>1, LeastElement
<1>3. s \in Lru!Held(obj) /\ KeyOf[obj.data[s]] = k
  OBVIOUS
<1>4. ASSUME NEW r \in 0..s - 1 PROVE KeyOf[obj.data[r]] # k
  <2>1. r \in Lru!Held(obj) /\ ~(s <= r)
    BY <1>3 DEF CacheInv, Lru!TypeOK, Lru!Held
  <2> QED
    BY <1>2, <2>1
<1>5. /\ Lru!Place(obj, k) \in Lru!Held(obj)
      /\ KeyOf[obj.data[Lru!Place(obj, k)]] = k
  BY <1>3, <1>4 DEF Lru!Place
<1> QED
  BY <1>5 DEF Lru!Held

LEMMA FrontKeeps ==
  ASSUME NEW d, NEW c \in 0..Size, NEW f, Keeps(d, c, f), NEW s \in 0..c, s < Size,
         NEW e \in Element, \A x \in 0..c - 1 : x # s => KeyOf[d[x]] # KeyOf[e],
         NEW h \in SUBSET Element, e \notin h, \A x \in 0..c - 1 : x # s => d[x] \notin h
  PROVE  Keeps(Lru!ToFront(d, s, e), IF s = c THEN c + 1 ELSE c, h)
<1> DEFINE b == Lru!ToFront(d, s, e)
           n == IF s = c THEN c + 1 ELSE c
           From(x) == IF x <= s THEN x - 1 ELSE x
<1>1. /\ \A x \in Lru!Slot : b[x] = IF x = 0 THEN e ELSE d[From(x)]
      /\ b \in [Lru!Slot -> Element \cup {Null}]
  BY SizeIs DEF Lru!ToFront, Lru!Slot, Keeps
<1>2. \A x \in 1..n - 1 : From(x) \in 0..c - 1 /\ From(x) # s
  OBVIOUS
<1>3. \A x, y \in 1..n - 1 : From(x) = From(y) => x = y
  OBVIOUS
<1>4. \A x \in 0..n - 1 : x = 0 \/ x \in 1..n - 1
  OBVIOUS
<1>5. 0..n - 1 \subseteq Lru!Slot
  BY SizeIs DEF Lru!Slot
<1>6. \A x \in 1..n - 1 : /\ b[x] = d[From(x)] /\ b[x] \in Element \ h
                         /\ KeyOf[b[x]] # KeyOf[e]
  BY <1>1, <1>2, <1>5 DEF Keeps
<1>7. n >= 1 => b[0] = e
  BY <1>1, <1>5
<1> HIDE DEF b, From
<1>8. \A x, y \in 1..n - 1 : KeyOf[b[x]] = KeyOf[b[y]] => x = y
  BY <1>2, <1>3, <1>6 DEF Keeps
<1>9. /\ \A x, y \in 0..n - 1 : KeyOf[b[x]] = KeyOf[b[y]] => x = y
      /\ \A x \in 0..n - 1 : b[x] \in Element \ h
  BY <1>4, <1>6, <1>7, <1>8
<1> QED
  BY <1>1, <1>9 DEF Keeps, b

LEMMA CacheInit == Lru!Init => CacheInv
<1> SUFFICES ASSUME NEW n \in 1..Size, NEW frees \in BOOLEAN,
                    obj = Lru!Construct(n, frees), aux = {} PROVE CacheInv
  BY DEF Lru!Init
<1> QED
  BY SizeIs DEF CacheInv, Lru!TypeOK, Lru!Sound, Lru!Held, Lru!Construct

LEMMA KeptIs ==
  ASSUME CacheInv, NEW d, NEW c \in 0..obj.max, Keeps(d, c, aux'),
         obj' = [obj EXCEPT !.data = d, !.count = c]
  PROVE  CacheInv'
<1>1. /\ obj \in [count : 0..Size, max : 1..Size, data : [Lru!Slot -> Element \cup {Null}],
                 frees : BOOLEAN]
  BY DEF CacheInv, Lru!TypeOK
<1>2. c \in 0..Size
  BY <1>1, SizeIs
<1>3. /\ obj' \in [count : 0..Size, max : 1..Size, data : [Lru!Slot -> Element \cup {Null}],
                 frees : BOOLEAN]
      /\ obj'.count = c /\ obj'.max = obj.max /\ obj'.data = d
  BY <1>1, <1>2 DEF Keeps
<1>4. aux' \subseteq Element /\ obj'.count <= obj'.max
  BY <1>1, <1>3 DEF Keeps
<1>5. Lru!TypeOK'
  BY <1>3, <1>4 DEF Lru!TypeOK
<1>6. Lru!Sound'
  BY <1>3 DEF Lru!Sound, Lru!Held, Keeps
<1> QED
  BY <1>5, <1>6 DEF CacheInv

LEMMA CacheKeeps == CacheInv /\ Lru!Next => CacheInv'
<1> SUFFICES ASSUME CacheInv, Lru!Next PROVE CacheInv'
  OBVIOUS
<1> DEFINE c == obj.count
           n == obj.max
           d == obj.data
<1>1. /\ obj \in [count : 0..Size, max : 1..Size, data : [Lru!Slot -> Element \cup {Null}],
                 frees : BOOLEAN]
      /\ c \in 0..Size /\ c \in Nat /\ n \in 1..Size /\ n \in Nat /\ c <= n /\ c \in 0..n /\ n <= Size
      /\ aux \in SUBSET Element
  BY SizeIs DEF CacheInv, Lru!TypeOK
<1>2. Keeps(d, c, aux)
  BY KeepsIs
<1>3. /\ \A x \in 0..c - 1 : d[x] \in Element /\ d[x] \notin aux
      /\ \A x, y \in 0..c - 1 : KeyOf[d[x]] = KeyOf[d[y]] => x = y
  BY <1>2 DEF Keeps
<1>4. ASSUME NEW b, NEW m \in 0..n, Keeps(b, m, aux'),
             \/ obj' = [obj EXCEPT !.data = b] /\ m = c
             \/ obj' = [obj EXCEPT !.data = b, !.count = m]
      PROVE  CacheInv'
  <2>1. obj' = [obj EXCEPT !.data = b, !.count = m]
    BY <1>1, <1>4
  <2> QED
    BY <1>4, <2>1, KeptIs
<1>5. ASSUME UNCHANGED <<obj, aux>> PROVE CacheInv'
  BY <1>5 DEF CacheInv, Lru!TypeOK, Lru!Sound, Lru!Held
<1>6. ASSUME NEW k \in Key, Lru!Find(k) PROVE CacheInv'
  <2> DEFINE s == Lru!Place(obj, k)
             b == Lru!ToFront(d, s, d[s])
  <2>1. s \in 0..c - 1 /\ KeyOf[d[s]] = k
    BY <1>6, PlaceIs DEF Lru!Find
  <2>2. obj' = [obj EXCEPT !.data = b] /\ aux' = aux
    BY <1>1, <1>6 DEF Lru!Find
  <2>3. s \in 0..c /\ s < Size /\ s # c
    BY <1>1, <2>1, SizeIs
  <2>4. Keeps(b, c, aux)
    BY <1>1, <1>2, <1>3, <2>1, <2>3, FrontKeeps
  <2> QED
    BY <1>1, <1>4, <2>2, <2>4
<1>7. ASSUME NEW e \in Element, Lru!Replace(e) PROVE CacheInv'
  <2> DEFINE s == Lru!Place(obj, KeyOf[e])
             b == Lru!ToFront(d, s, e)
  <2>1. s \in 0..c - 1 /\ KeyOf[d[s]] = KeyOf[e]
    BY <1>7, PlaceIs DEF Lru!Replace
  <2>2. obj' = [obj EXCEPT !.data = b] /\ aux' = (aux \ {e}) \cup Lru!Drop(obj, e, d[s])
    BY <1>1, <1>7 DEF Lru!Replace
  <2>3. s \in 0..c /\ s < Size /\ s # c
    BY <1>1, <2>1, SizeIs
  <2>4. aux' \in SUBSET Element /\ e \notin aux' /\ \A x \in 0..c - 1 : x # s => d[x] \notin aux'
    BY <1>1, <1>3, <2>1, <2>2 DEF Lru!Drop
  <2>5. Keeps(b, c, aux')
    BY <1>1, <1>2, <1>3, <2>1, <2>3, <2>4, FrontKeeps
  <2> QED
    BY <1>1, <1>4, <2>2, <2>5
<1>8. ASSUME NEW e \in Element, NEW frees \in BOOLEAN, Lru!Evict(e, frees) PROVE CacheInv'
  <2> DEFINE s == n - 1
             b == Lru!ToFront(d, s, e)
  <2>1. c = n /\ s \in 0..c - 1 /\ \A x \in 0..c - 1 : KeyOf[d[x]] # KeyOf[e]
    BY <1>1, <1>8 DEF Lru!Evict, Lru!Has, Lru!Held
  <2>2. obj' = [obj EXCEPT !.data = b] /\ aux' = (aux \ {e}) \cup (IF frees THEN {d[s]} ELSE {})
    BY <1>1, <1>8 DEF Lru!Evict
  <2>3. s \in 0..c /\ s < Size /\ s # c
    BY <1>1, <2>1, SizeIs
  <2>4. aux' \in SUBSET Element /\ e \notin aux' /\ \A x \in 0..c - 1 : x # s => d[x] \notin aux'
    BY <1>1, <1>3, <2>1, <2>2
  <2>5. Keeps(b, c, aux')
    BY <1>1, <1>2, <2>1, <2>3, <2>4, FrontKeeps
  <2> QED
    BY <1>1, <1>4, <2>2, <2>5
<1>9. ASSUME NEW e \in Element, Lru!Insert(e) PROVE CacheInv'
  <2> DEFINE b == Lru!ToFront(d, c, e)
  <2>1. c # n /\ \A x \in 0..c - 1 : KeyOf[d[x]] # KeyOf[e]
    BY <1>1, <1>9 DEF Lru!Insert, Lru!Has, Lru!Held
  <2>2. obj' = [obj EXCEPT !.data = b, !.count = c + 1] /\ aux' = aux \ {e}
    BY <1>1, <1>9 DEF Lru!Insert
  <2>3. c \in 0..c /\ c < Size /\ c + 1 \in 0..n
    BY <1>1, <2>1, SizeIs
  <2>4. aux' \in SUBSET Element /\ e \notin aux' /\ \A x \in 0..c - 1 : x # c => d[x] \notin aux'
    BY <1>1, <1>3, <2>2
  <2>5. Keeps(b, c + 1, aux')
    BY <1>1, <1>2, <2>1, <2>3, <2>4, FrontKeeps
  <2> QED
    BY <1>1, <1>4, <2>2, <2>3, <2>5
<1>10. ASSUME NEW k \in Key, Lru!RemoveKey(k) PROVE CacheInv'
  <2> DEFINE s == Lru!Place(obj, k)
             b == Lru!CloseGap(obj, s)
             From(x) == IF x \in s..c - 2 THEN x + 1 ELSE x
  <2>1. s \in 0..c - 1
    BY <1>10, PlaceIs DEF Lru!RemoveKey
  <2>2. obj' = [obj EXCEPT !.data = b, !.count = c - 1] /\ aux' = aux
    BY <1>1, <1>10 DEF Lru!RemoveKey
  <2>3. c - 1 \in 0..n
    BY <1>1, <2>1
  <2>4. \A x \in 0..(c - 1) - 1 : From(x) \in 0..c - 1
    BY <1>1, <2>1
  <2>5. \A x, y \in 0..(c - 1) - 1 : From(x) = From(y) => x = y
    BY <1>1, <2>1
  <2>6. /\ \A x \in Lru!Slot : b[x] = d[From(x)]
        /\ 0..(c - 1) - 1 \subseteq Lru!Slot
    BY <1>1, SizeIs DEF Lru!CloseGap, Lru!Slot
  <2>7. b \in [Lru!Slot -> Element \cup {Null}]
    <3>1. \A x \in Lru!Slot : From(x) \in Lru!Slot
      BY <1>1, <2>1, SizeIs DEF Lru!Slot
    <3>2. \A x \in Lru!Slot : d[From(x)] \in Element \cup {Null}
      BY <1>1, <3>1
    <3>3. b = [x \in Lru!Slot |-> d[From(x)]]
      BY DEF Lru!CloseGap
    <3> QED
      BY <3>2, <3>3
  <2> HIDE DEF b, From, c, d
  <2>8. Keeps(b, c - 1, aux)
    BY <1>1, <1>3, <2>4, <2>5, <2>6, <2>7 DEF Keeps
  <2> QED
    BY <1>1, <1>4, <2>2, <2>3, <2>8 DEF c, d
<1>11. ASSUME NEW g \in Transform, NEW frees \in BOOLEAN, Lru!Map(g, frees) PROVE CacheInv'
  <2> DEFINE changed == {d[s] : s \in {x \in Lru!Held(obj) : g[d[x]] # d[x]}}
             b == [s \in Lru!Slot |-> IF s \in Lru!Held(obj) THEN g[d[s]] ELSE d[s]]
  <2>1. /\ obj' = [obj EXCEPT !.data = b]
        /\ aux' = (aux \ {g[e] : e \in changed}) \cup (IF frees THEN changed ELSE {})
        /\ \A e \in Element : KeyOf[g[e]] = KeyOf[e]
    BY <1>1, <1>11 DEF Lru!Map
  <2>2. \A e \in Element : g[e] \in Element
    BY <1>11, ElementIs
  <2>3. /\ b \in [Lru!Slot -> Element \cup {Null}]
        /\ \A s \in 0..c - 1 : b[s] = g[d[s]]
    BY <1>1, <1>3, <2>2, SizeIs DEF Lru!Held, Lru!Slot
  <2>4. changed \subseteq Element
    BY <1>3 DEF Lru!Held
  <2>5. ASSUME NEW s \in 0..c - 1 PROVE g[d[s]] \in Element \ aux'
    <3>1. ASSUME g[d[s]] \in changed PROVE FALSE
      <4>1. PICK t \in 0..c - 1 : g[d[s]] = d[t] /\ g[d[t]] # d[t]
        BY <3>1 DEF Lru!Held
      <4>2. KeyOf[d[s]] = KeyOf[d[t]]
        BY <1>3, <2>1, <4>1
      <4> QED
        BY <1>3, <4>1, <4>2
    <3>2. d[s] \in changed \/ g[d[s]] = d[s]
      BY DEF Lru!Held
    <3> QED
      BY <1>3, <2>1, <2>2, <3>1, <3>2
  <2>6. \A r, s \in 0..c - 1 : KeyOf[g[d[r]]] = KeyOf[g[d[s]]] => r = s
    BY <1>3, <2>1
  <2>7. aux' \subseteq Element
    BY <1>1, <2>1, <2>4
  <2> HIDE DEF b, changed
  <2>8. Keeps(b, c, aux')
    BY <2>3, <2>5, <2>6, <2>7 DEF Keeps
  <2> QED
    BY <1>1, <1>4, <2>1, <2>8
<1>12. CASE Lru!Renew
  <2>1. obj' = Lru!Construct(n, obj.frees)
    BY <1>12 DEF Lru!Renew
  <2>2. \A i \in 1..c : d[i - 1] \in Element
    BY <1>1, <1>3
  <2>3. Lru!Range(<<>>) \subseteq Element /\ Lru!Range(Lru!Contents(obj)) \subseteq Element
    <3>1. Lru!Range(<<>>) = {}
      BY DEF Lru!Range
    <3> QED
      BY <2>2, <3>1 DEF Lru!Range, Lru!Contents
  <2>4. aux' \subseteq Element
    BY <1>1, <1>12, <2>3 DEF Lru!Renew
  <2>5. /\ obj' \in [count : 0..Size, max : 1..Size, data : [Lru!Slot -> Element \cup {Null}],
                   frees : BOOLEAN]
        /\ obj'.count = 0 /\ obj'.count <= obj'.max
    BY <1>1, <2>1, SizeIs DEF Lru!Construct
  <2> QED
    BY <2>4, <2>5 DEF CacheInv, Lru!TypeOK, Lru!Sound, Lru!Held
<1> QED
  BY <1>5, <1>6, <1>7, <1>8, <1>9, <1>10, <1>11, <1>12
  DEF Lru!Next, Lru!Peek, Lru!Misses, Lru!Count, Lru!SeeAll

-----------------------------------------------------------------------------
(* Dictionary: one chain changes in a step, and with it the contents, the  *)
(* chains one after another.                                               *)

LEMMA FlatIs ==
  ASSUME NEW n \in Nat, NEW s \in [1..n -> Seq(Element)]
  PROVE  \E h \in [0..n -> Seq(Element)] :
           /\ h[0] = <<>> /\ \A i \in 1..n : h[i] = h[i - 1] \o s[i]
           /\ Chained!Flat(s) = h[n]
<1> DEFINE States == Seq(Element)
           F == [k \in 1..n |-> [x \in States |-> x \o s[k]]]
           Turn(h) == [i \in 0..n |-> IF i = 0 THEN <<>> ELSE h[i - 1] \o s[i]]
           flat == CHOOSE h : h = Turn(h)
<1>1. F \in Turns(n, States) /\ <<>> \in States
  BY DEF Turns
<1>2. \A k \in 1..n : \A x \in States : F[k][x] = x \o s[k]
  OBVIOUS
<1> HIDE DEF F, States
<1>3. PICK g : Run(g, n, States, <<>>, F)
  BY <1>1, Iterates
<1>4. /\ g \in [0..n -> States] /\ g[0] = <<>>
      /\ \A i \in 1..n : g[i] = g[i - 1] \o s[i]
  <2>1. /\ g \in [0..n -> States] /\ g[0] = <<>>
        /\ \A i \in 1..n : g[i] = F[i][g[i - 1]]
    BY <1>3 DEF Run
  <2>2. \A i \in 1..n : i - 1 \in 0..n
    OBVIOUS
  <2> QED
    BY <1>2, <2>1, <2>2
<1>5. \A i \in 0..n : g[i] = IF i = 0 THEN <<>> ELSE g[i - 1] \o s[i]
  <2>1. \A i \in 0..n : i # 0 => i \in 1..n
    OBVIOUS
  <2> QED
    BY <1>4, <2>1
<1>6. g = Turn(g)
  BY <1>4, <1>5
<1>7. flat = Turn(flat)
  BY <1>6
<1>8. Len(s) = n
  OBVIOUS
<1>9. Chained!Flat(s) = flat[n]
  BY <1>8 DEF Chained!Flat, Chained!Through
<1> HIDE DEF flat
<1>10. \A i \in 0..n : flat[i] = IF i = 0 THEN <<>> ELSE flat[i - 1] \o s[i]
  BY <1>7
<1>11. \A i \in 0..n : i \in {j \in 0..n : flat[j] \in Seq(Element)}
  <2> DEFINE G == {j \in 0..n : flat[j] \in Seq(Element)}
  <2>1. 0 \in G
    <3>1. flat[0] = <<>> /\ 0 \in 0..n
      BY <1>10
    <3>2. <<>> \in Seq(Element)
      OBVIOUS
    <3> QED
      BY <3>1, <3>2
  <2>2. ASSUME NEW k \in 1..n, k - 1 \in G PROVE k \in G
    <3>1. flat[k - 1] \in Seq(Element) /\ s[k] \in Seq(Element) /\ k \in 0..n /\ k # 0
      BY <2>2
    <3>2. flat[k] = flat[k - 1] \o s[k]
      BY <1>10, <3>1
    <3>3. flat[k] \in Seq(Element)
      BY <3>1, <3>2, ConcatProperties
    <3> QED
      BY <3>3
  <2> HIDE DEF G
  <2> QED
    BY <2>1, <2>2, InductionUpTo DEF G
<1>12. /\ \A i \in 0..n : flat[i] \in Seq(Element)
       /\ flat[0] = <<>> /\ \A i \in 1..n : flat[i] = flat[i - 1] \o s[i]
  <2>1. \A i \in 0..n : flat[i] \in Seq(Element)
    BY <1>11
  <2>2. flat[0] = <<>>
    BY <1>10
  <2>3. \A i \in 1..n : i \in 0..n /\ i # 0
    OBVIOUS
  <2> QED
    BY <1>10, <2>1, <2>2, <2>3
<1>13. flat = [i \in 0..n |-> flat[i]]
  BY <1>7
<1> QED
  BY <1>9, <1>12, <1>13

LEMMA RangeOfConcat ==
  ASSUME NEW a \in Seq(Element), NEW b \in Seq(Element)
  PROVE  \A x : x \in Chained!Range(a \o b) <=> x \in Chained!Range(a) \/ x \in Chained!Range(b)
<1> DEFINE c == a \o b
<1>1. /\ DOMAIN c = 1..Len(a) + Len(b) /\ Len(a) \in Nat /\ Len(b) \in Nat
      /\ DOMAIN a = 1..Len(a) /\ DOMAIN b = 1..Len(b)
      /\ \A i \in 1..Len(a) + Len(b) : c[i] = IF i <= Len(a) THEN a[i] ELSE b[i - Len(a)]
  OBVIOUS
<1> HIDE DEF c
<1>2. \A i \in 1..Len(a) : i \in 1..Len(a) + Len(b) /\ c[i] = a[i]
  BY <1>1
<1>3. \A i \in 1..Len(b) : i + Len(a) \in 1..Len(a) + Len(b) /\ c[i + Len(a)] = b[i]
  BY <1>1
<1>4. \A i \in 1..Len(a) + Len(b) : i \in 1..Len(a) \/ i - Len(a) \in 1..Len(b)
  BY <1>1
<1>5. ASSUME NEW i \in 1..Len(a) + Len(b)
      PROVE  (\E j \in 1..Len(a) : c[i] = a[j]) \/ (\E j \in 1..Len(b) : c[i] = b[j])
  <2>1. CASE i \in 1..Len(a)
    BY <1>2, <2>1
  <2>2. CASE i \notin 1..Len(a)
    <3>1. i - Len(a) \in 1..Len(b) /\ (i - Len(a)) + Len(a) = i
      BY <1>1, <1>4, <2>2
    <3> QED
      BY <1>3, <3>1
  <2> QED
    BY <2>1, <2>2
<1>6. /\ Chained!Range(a) = {a[i] : i \in 1..Len(a)} /\ Chained!Range(b) = {b[i] : i \in 1..Len(b)}
      /\ Chained!Range(c) = {c[i] : i \in 1..Len(a) + Len(b)}
  BY <1>1 DEF Chained!Range
<1>7. SUFFICES \A x : x \in Chained!Range(c) <=> x \in Chained!Range(a) \/ x \in Chained!Range(b)
  BY DEF c
<1> TAKE x
<1>8. ASSUME x \in Chained!Range(c) PROVE x \in Chained!Range(a) \/ x \in Chained!Range(b)
  BY <1>5, <1>6, <1>8
<1>9. ASSUME x \in Chained!Range(a) PROVE x \in Chained!Range(c)
  BY <1>2, <1>6, <1>9
<1>10. ASSUME x \in Chained!Range(b) PROVE x \in Chained!Range(c)
  BY <1>3, <1>6, <1>10
<1> QED
  BY <1>8, <1>9, <1>10

LEMMA FlatSet ==
  ASSUME NEW n \in Nat, NEW s \in [1..n -> Seq(Element)]
  PROVE  /\ Chained!Flat(s) \in Seq(Element)
         /\ \A x : x \in Chained!Range(Chained!Flat(s))
                   <=> \E i \in 1..n : x \in Chained!Range(s[i])
<1>1. PICK h \in [0..n -> Seq(Element)] :
           /\ h[0] = <<>> /\ \A i \in 1..n : h[i] = h[i - 1] \o s[i]
           /\ Chained!Flat(s) = h[n]
  BY FlatIs
<1> DEFINE In(i) == \A x : x \in Chained!Range(h[i]) <=> \E k \in 1..i : x \in Chained!Range(s[k])
           G == {i \in 0..n : In(i)}
<1>2. 0 \in G
  <2>1. Chained!Range(h[0]) = {}
    BY <1>1 DEF Chained!Range
  <2> QED
    BY <2>1
<1>3. ASSUME NEW i \in 1..n, i - 1 \in G PROVE i \in G
  <2>1. In(i - 1) /\ i - 1 \in 0..n
    <3> HIDE DEF In
    <3> QED
      BY <1>3
  <2>2. h[i - 1] \in Seq(Element) /\ s[i] \in Seq(Element) /\ h[i] = h[i - 1] \o s[i]
    BY <1>1, <2>1
  <2>3. \A x : x \in Chained!Range(h[i]) <=> x \in Chained!Range(h[i - 1]) \/ x \in Chained!Range(s[i])
    BY <2>2, RangeOfConcat
  <2>4. \A k : k \in 1..i <=> k \in 1..i - 1 \/ k = i
    OBVIOUS
  <2>5. In(i)
    BY <2>1, <2>3, <2>4
  <2> HIDE DEF In
  <2> QED
    BY <2>5
<1> HIDE DEF G
<1>4. n \in G
  <2>1. \A i \in 0..n : i \in G
    BY <1>2, <1>3, InductionUpTo
  <2> QED
    BY <2>1
<1>5. In(n)
  <2> HIDE DEF In
  <2> QED
    BY <1>4 DEF G
<1>6. h[n] \in Seq(Element)
  OBVIOUS
<1> QED
  BY <1>1, <1>5, <1>6

(* p[i] is the sum of the first i numbers in a.                            *)
Sums(n, a, p) ==
  p \in [0..n -> Nat] /\ p[0] = 0 /\ \A i \in 1..n : p[i] = p[i - 1] + a[i]

(* Sums of two rows of numbers that differ in one place.                   *)
(* What x is more than y, u is more than v.                                *)
Follows(x, y, u, v) == \A k \in Int : x = y + k => u = v + k

LEMMA SumsDiffer ==
  ASSUME NEW n \in Nat, NEW m \in 1..n, NEW p, NEW q,
         NEW a \in [1..n -> Nat], NEW b \in [1..n -> Nat], \A i \in 1..n : i # m => b[i] = a[i],
         Sums(n, a, p), Sums(n, b, q)
  PROVE  Follows(b[m], a[m], q[n], p[n])
<1> SUFFICES ASSUME NEW k \in Int, b[m] = a[m] + k PROVE q[n] = p[n] + k
  BY DEF Follows
<1> DEFINE More(i) == q[i] = p[i] + (IF i < m THEN 0 ELSE k)
           G == {i \in 0..n : More(i)}
<1>1. k \in Int /\ m \in 1..n /\ a[m] \in Nat /\ b[m] = a[m] + k
  OBVIOUS
<1>2. 0 \in G
  BY <1>1 DEF Sums
<1>3. ASSUME NEW i \in 1..n, i - 1 \in G PROVE i \in G
  <2> DEFINE x == p[i - 1]
             y == q[i - 1]
             u == a[i]
             v == b[i]
  <2>1. i - 1 \in 0..n /\ i \in 0..n /\ y = x + (IF i - 1 < m THEN 0 ELSE k)
    BY <1>3
  <2>2. p[i] = x + u /\ q[i] = y + v
    BY DEF Sums
  <2>3. x \in Nat /\ y \in Nat /\ u \in Nat /\ v \in Nat
    BY <2>1 DEF Sums
  <2>4. v = IF i = m THEN u + k ELSE u
    BY <1>1
  <2> HIDE DEF x, y, u, v
  <2>5. y + v = (x + u) + (IF i < m THEN 0 ELSE k)
    BY <1>1, <2>1, <2>3, <2>4
  <2> QED
    BY <2>1, <2>2, <2>5
<1> HIDE DEF G
<1>4. n \in G
  <2>1. \A i \in 0..n : i \in G
    BY <1>2, <1>3, InductionUpTo
  <2> QED
    BY <2>1
<1> QED
  BY <1>4 DEF G

LEMMA FlatLength ==
  ASSUME NEW n \in Nat, NEW s \in [1..n -> Seq(Element)], NEW t \in [1..n -> Seq(Element)],
         NEW m \in 1..n, \A i \in 1..n : i # m => t[i] = s[i]
  PROVE  \A k \in Int : Len(t[m]) = Len(s[m]) + k
                      => Len(Chained!Flat(t)) = Len(Chained!Flat(s)) + k
<1>1. PICK h \in [0..n -> Seq(Element)] :
           /\ h[0] = <<>> /\ \A i \in 1..n : h[i] = h[i - 1] \o s[i]
           /\ Chained!Flat(s) = h[n]
  BY FlatIs
<1>2. PICK g \in [0..n -> Seq(Element)] :
           /\ g[0] = <<>> /\ \A i \in 1..n : g[i] = g[i - 1] \o t[i]
           /\ Chained!Flat(t) = g[n]
  BY FlatIs
<1> DEFINE Lengths(f, k) == [i \in k..n |-> Len(f[i])]
<1>3. /\ \A f \in [0..n -> Seq(Element)] : Lengths(f, 0) \in [0..n -> Nat]
      /\ \A f \in [1..n -> Seq(Element)] : Lengths(f, 1) \in [1..n -> Nat]
  OBVIOUS
<1>4. ASSUME NEW f \in [0..n -> Seq(Element)], NEW u \in [1..n -> Seq(Element)],
             \A i \in 1..n : f[i] = f[i - 1] \o u[i]
      PROVE  \A i \in 1..n : Lengths(f, 0)[i] = Lengths(f, 0)[i - 1] + Lengths(u, 1)[i]
  <2> SUFFICES ASSUME NEW i \in 1..n
               PROVE Lengths(f, 0)[i] = Lengths(f, 0)[i - 1] + Lengths(u, 1)[i]
    OBVIOUS
  <2>1. i \in 0..n /\ i - 1 \in 0..n
    OBVIOUS
  <2>2. f[i - 1] \in Seq(Element) /\ u[i] \in Seq(Element) /\ f[i] = f[i - 1] \o u[i]
    BY <1>4, <2>1
  <2>3. Len(f[i]) = Len(f[i - 1]) + Len(u[i])
    BY <2>2, ConcatProperties
  <2> QED
    BY <2>1, <2>3
<1>5. /\ \A i \in 1..n : Lengths(h, 0)[i] = Lengths(h, 0)[i - 1] + Lengths(s, 1)[i]
      /\ \A i \in 1..n : Lengths(g, 0)[i] = Lengths(g, 0)[i - 1] + Lengths(t, 1)[i]
  BY <1>1, <1>2, <1>4
<1>6. /\ Lengths(h, 0)[0] = 0 /\ Lengths(g, 0)[0] = 0
      /\ \A i \in 1..n : i # m => Lengths(t, 1)[i] = Lengths(s, 1)[i]
  <2>1. Len(<<>>) = 0 /\ 0 \in 0..n
    OBVIOUS
  <2>2. Lengths(h, 0)[0] = Len(h[0]) /\ Lengths(g, 0)[0] = Len(g[0])
    BY <2>1
  <2> QED
    BY <1>1, <1>2, <2>1, <2>2
<1>7. /\ Lengths(h, 0)[n] = Len(h[n]) /\ Lengths(g, 0)[n] = Len(g[n])
      /\ Lengths(s, 1)[m] = Len(s[m]) /\ Lengths(t, 1)[m] = Len(t[m])
  OBVIOUS
<1>8. /\ Lengths(h, 0) \in [0..n -> Nat] /\ Lengths(g, 0) \in [0..n -> Nat]
      /\ Lengths(s, 1) \in [1..n -> Nat] /\ Lengths(t, 1) \in [1..n -> Nat]
  BY <1>3
<1> HIDE DEF Lengths
<1>9. /\ Sums(n, Lengths(s, 1), Lengths(h, 0))
      /\ Sums(n, Lengths(t, 1), Lengths(g, 0))
  BY <1>5, <1>6, <1>8 DEF Sums
<1>10. \A i \in 1..n : i # m => Lengths(t, 1)[i] = Lengths(s, 1)[i]
  BY <1>6
<1> DEFINE a == Lengths(s, 1)
           b == Lengths(t, 1)
           p == Lengths(h, 0)
           q == Lengths(g, 0)
<1>11. Follows(b[m], a[m], q[n], p[n])
  <2>1. /\ a \in [1..n -> Nat] /\ b \in [1..n -> Nat] /\ \A i \in 1..n : i # m => b[i] = a[i]
        /\ Sums(n, a, p) /\ Sums(n, b, q)
    BY <1>8, <1>9, <1>10
  <2> HIDE DEF a, b, p, q
  <2> QED
    BY ONLY n \in Nat, m \in 1..n, <2>1, SumsDiffer
<1> QED
  BY <1>1, <1>2, <1>7, <1>11 DEF Follows

(* The chains of d, numbered from 1.                                       *)
Row(d) == [i \in 1..d.max |-> d.data[i - 1]]

(* Chain c holds elements of different keys that belong in place s, none   *)
(* of them released.                                                       *)
GoodChain(n, c, s, f) ==
  /\ c \in Seq(Element)
  /\ \A i \in 1..Len(c) : HashOf[KeyOf[c[i]]] % n = s /\ c[i] \notin f
  /\ \A i, j \in 1..Len(c) : KeyOf[c[i]] = KeyOf[c[j]] => i = j

(* What the invariant says, chain by chain.                                *)
GoodDict(d, n, f) ==
  /\ d \in [max : {n}, count : Nat, data : [0..n - 1 -> Seq(Element)]]
  /\ f \subseteq Element
  /\ \A s \in 0..n - 1 : GoodChain(n, d.data[s], s, f)
  /\ d.count = Len(Chained!Contents(d))

LEMMA RowIs ==
  ASSUME NEW n \in Nat, NEW d \in [max : {n}, count : Nat, data : [0..n - 1 -> Seq(Element)]]
  PROVE  /\ Row(d) \in [1..n -> Seq(Element)]
         /\ Chained!Contents(d) = Chained!Flat(Row(d))
         /\ \A i \in 1..n : Row(d)[i] = d.data[i - 1]
<1>1. \A i \in 1..n : i - 1 \in 0..n - 1
  OBVIOUS
<1> QED
  BY <1>1 DEF Row, Chained!Contents

LEMMA ContentsAre ==
  ASSUME NEW n \in Nat, NEW d \in [max : {n}, count : Nat, data : [0..n - 1 -> Seq(Element)]]
  PROVE  /\ Chained!Contents(d) \in Seq(Element)
         /\ \A x : x \in Chained!Range(Chained!Contents(d))
                   <=> \E s \in 0..n - 1 : x \in Chained!Range(d.data[s])
<1>1. /\ Row(d) \in [1..n -> Seq(Element)]
      /\ Chained!Contents(d) = Chained!Flat(Row(d))
      /\ \A i \in 1..n : Row(d)[i] = d.data[i - 1]
  BY RowIs
<1>2. /\ Chained!Contents(d) \in Seq(Element)
      /\ \A x : x \in Chained!Range(Chained!Contents(d))
                <=> \E i \in 1..n : x \in Chained!Range(Row(d)[i])
  BY <1>1, FlatSet
<1>3. /\ \A i \in 1..n : i - 1 \in 0..n - 1
      /\ \A s \in 0..n - 1 : s + 1 \in 1..n /\ (s + 1) - 1 = s
  OBVIOUS
<1>4. \A s \in 0..n - 1 : Row(d)[s + 1] = d.data[s]
  BY <1>1, <1>3
<1> QED
  BY <1>1, <1>2, <1>3, <1>4

GoodNow == \E n \in 1..Size : GoodDict(obj, n, aux)

LEMMA DictInvIs == Chained!DictInv <=> GoodNow
<1>1. ASSUME NEW n \in 1..Size, obj \in [max : {n}, count : Nat, data : [0..n - 1 -> Seq(Element)]]
      PROVE  /\ Chained!Range(Chained!Contents(obj)) \cap aux = {}
                <=> \A s \in 0..n - 1 : \A i \in 1..Len(obj.data[s]) : obj.data[s][i] \notin aux
             /\ \A s \in 0..n - 1 : /\ obj.data[s] \in Seq(Element)
                                   /\ DOMAIN obj.data[s] = 1..Len(obj.data[s])
             /\ obj.max = n
  <2>1. n \in Nat /\ n >= 1
    BY SizeIs
  <2>2. \A s \in 0..n - 1 : obj.data[s] \in Seq(Element)
    BY <1>1
  <2>3. \A s \in 0..n - 1 : DOMAIN obj.data[s] = 1..Len(obj.data[s])
    BY <2>2
  <2> DEFINE C == Chained!Range(Chained!Contents(obj))
  <2>4. \A x : x \in C <=> \E s \in 0..n - 1 : x \in Chained!Range(obj.data[s])
    BY <1>1, <2>1, ContentsAre
  <2>5. \A s \in 0..n - 1 : \A x : x \in Chained!Range(obj.data[s])
                                 <=> \E i \in 1..Len(obj.data[s]) : x = obj.data[s][i]
    BY <2>3 DEF Chained!Range
  <2> HIDE DEF C
  <2>6. C \cap aux = {} <=> \A s \in 0..n - 1 : \A i \in 1..Len(obj.data[s]) : obj.data[s][i] \notin aux
    <3>1. C \cap aux = {} <=> \A x : ~(x \in C /\ x \in aux)
      OBVIOUS
    <3>2. (\A x : ~(x \in C /\ x \in aux))
           <=> \A s \in 0..n - 1 : \A x : x \in Chained!Range(obj.data[s]) => x \notin aux
      BY <2>4
    <3>3. ASSUME NEW s \in 0..n - 1
          PROVE  (\A x : x \in Chained!Range(obj.data[s]) => x \notin aux)
                   <=> \A i \in 1..Len(obj.data[s]) : obj.data[s][i] \notin aux
      <4>1. \A x : x \in Chained!Range(obj.data[s]) <=> \E i \in 1..Len(obj.data[s]) : x = obj.data[s][i]
        BY <2>5
      <4> QED
        BY <4>1
    <3> QED
      BY <3>1, <3>2, <3>3
  <2>7. obj.max = n
    BY <1>1
  <2> QED
    BY <2>2, <2>3, <2>6, <2>7 DEF C
<1>2. ASSUME Chained!DictInv PROVE \E n \in 1..Size : GoodDict(obj, n, aux)
  <2>1. PICK n \in 1..Size : obj \in [max : {n}, count : Nat, data : [0..n - 1 -> Seq(Element)]]
    BY <1>2 DEF Chained!DictInv, Chained!TypeOK
  <2>2. /\ \A s \in 0..n - 1 : /\ obj.data[s] \in Seq(Element)
                             /\ DOMAIN obj.data[s] = 1..Len(obj.data[s])
                             /\ \A i \in 1..Len(obj.data[s]) : obj.data[s][i] \notin aux
        /\ obj.max = n
    BY <1>1, <1>2, <2>1 DEF Chained!DictInv
  <2>3. \A s \in 0..n - 1 :
          /\ \A i \in 1..Len(obj.data[s]) : HashOf[KeyOf[obj.data[s][i]]] % n = s
          /\ \A i, j \in 1..Len(obj.data[s]) : KeyOf[obj.data[s][i]] = KeyOf[obj.data[s][j]] => i = j
    <3> SUFFICES ASSUME NEW s \in 0..n - 1
                 PROVE  /\ \A i \in 1..Len(obj.data[s]) : HashOf[KeyOf[obj.data[s][i]]] % n = s
                        /\ \A i, j \in 1..Len(obj.data[s]) :
                             KeyOf[obj.data[s][i]] = KeyOf[obj.data[s][j]] => i = j
      OBVIOUS
    <3> DEFINE c == obj.data[s]
               keys == [i \in DOMAIN c |-> KeyOf[c[i]]]
    <3>1. /\ \A i \in DOMAIN c : Chained!Home(obj, KeyOf[c[i]]) = s
          /\ Chained!IsInjective(keys) /\ DOMAIN c = 1..Len(c)
      BY <1>2, <2>2 DEF Chained!DictInv
    <3> HIDE DEF c
    <3>2. \A i, j \in 1..Len(c) : keys[i] = keys[j] => i = j
      BY <3>1 DEF Chained!IsInjective
    <3>3. \A i, j \in 1..Len(c) : KeyOf[c[i]] = KeyOf[c[j]] => i = j
      BY <3>1, <3>2
    <3>4. \A i \in 1..Len(c) : HashOf[KeyOf[c[i]]] % n = s
      BY <2>2, <3>1 DEF Chained!Home
    <3> QED
      BY <3>3, <3>4 DEF c
  <2>4. GoodDict(obj, n, aux)
    BY <1>2, <2>1, <2>2, <2>3 DEF GoodDict, GoodChain, Chained!DictInv, Chained!TypeOK
  <2> QED
    BY <2>4
<1>3. ASSUME NEW n \in 1..Size, GoodDict(obj, n, aux) PROVE Chained!DictInv
  <2>1. obj \in [max : {n}, count : Nat, data : [0..n - 1 -> Seq(Element)]]
    BY <1>3 DEF GoodDict
  <2>2. Chained!TypeOK
    BY <1>3, <2>1 DEF Chained!TypeOK, GoodDict
  <2>3. /\ \A s \in 0..n - 1 : DOMAIN obj.data[s] = 1..Len(obj.data[s]) /\ GoodChain(n, obj.data[s], s, aux)
        /\ obj.max = n
        /\ obj.count = Len(Chained!Contents(obj))
    BY <1>1, <1>3, <2>1 DEF GoodDict
  <2>4. Chained!Range(Chained!Contents(obj)) \cap aux = {}
    BY <1>1, <2>1, <2>3 DEF GoodChain
  <2>5. \A s \in 0..n - 1 :
          /\ \A i \in DOMAIN obj.data[s] : Chained!Home(obj, KeyOf[obj.data[s][i]]) = s
          /\ Chained!IsInjective([i \in DOMAIN obj.data[s] |-> KeyOf[obj.data[s][i]]])
    <3> SUFFICES ASSUME NEW s \in 0..n - 1
                 PROVE  /\ \A i \in DOMAIN obj.data[s] : Chained!Home(obj, KeyOf[obj.data[s][i]]) = s
                        /\ Chained!IsInjective([i \in DOMAIN obj.data[s] |-> KeyOf[obj.data[s][i]]])
      OBVIOUS
    <3>1. \A i \in DOMAIN obj.data[s] : Chained!Home(obj, KeyOf[obj.data[s][i]]) = s
      BY <2>3 DEF GoodChain, Chained!Home
    <3>2. \A i, j \in DOMAIN obj.data[s] : KeyOf[obj.data[s][i]] = KeyOf[obj.data[s][j]] => i = j
      <4>1. DOMAIN obj.data[s] = 1..Len(obj.data[s]) /\ GoodChain(n, obj.data[s], s, aux)
        BY <2>3
      <4> QED
        BY <4>1 DEF GoodChain
    <3> QED
      BY <3>1, <3>2 DEF Chained!IsInjective
  <2> QED
    BY <2>2, <2>3, <2>4, <2>5 DEF Chained!DictInv
<1> QED
  BY <1>2, <1>3 DEF GoodNow

(* Chain c in place of the one of k, the released elements then being g.   *)
LEMMA RelinkKeeps ==
  ASSUME NEW n \in 1..Size, NEW d, NEW f, GoodDict(d, n, f), NEW k \in Key,
         NEW c, NEW j \in {-1, 0, 1}, NEW g \in SUBSET Element,
         GoodChain(n, c, Chained!Home(d, k), g), Len(c) = Len(Chained!Chain(d, k)) + j,
         \A s \in 0..n - 1 : \A i \in 1..Len(d.data[s]) :
           s # Chained!Home(d, k) => d.data[s][i] \notin g
  PROVE  GoodDict(Chained!Relink(d, k, c, j), n, g)
<1> DEFINE t == Chained!Home(d, k)
           u == [d.data EXCEPT ![t] = c]
           b == Chained!Relink(d, k, c, j)
<1>1. /\ n \in Nat /\ n >= 1 /\ d.max = n /\ d.count \in Nat /\ j \in Int
      /\ d \in [max : {n}, count : Nat, data : [0..n - 1 -> Seq(Element)]]
  BY SizeIs DEF GoodDict
<1>2. t \in 0..n - 1
  <2>1. HashOf[k] \in Int
    BY ElementIs
  <2> QED
    BY <1>1, <2>1 DEF Chained!Home
<1>3. c \in Seq(Element) /\ d.data[t] \in Seq(Element) /\ Len(c) = Len(d.data[t]) + j
  BY <1>1, <1>2 DEF GoodChain, Chained!Chain
<1>4. /\ u \in [0..n - 1 -> Seq(Element)] /\ u[t] = c
      /\ \A s \in 0..n - 1 : s # t => u[s] = d.data[s]
  BY <1>1, <1>2, <1>3
<1>5. b = [max |-> n, count |-> d.count + j, data |-> u]
  BY <1>1 DEF Chained!Relink
<1> DEFINE a == [max |-> n, count |-> 0, data |-> u]
<1>6. /\ Row(d) \in [1..n -> Seq(Element)] /\ Row(a) \in [1..n -> Seq(Element)]
      /\ Chained!Contents(d) = Chained!Flat(Row(d)) /\ Chained!Contents(a) = Chained!Flat(Row(a))
      /\ \A i \in 1..n : Row(d)[i] = d.data[i - 1] /\ Row(a)[i] = u[i - 1]
  <2>1. a \in [max : {n}, count : Nat, data : [0..n - 1 -> Seq(Element)]] /\ a.data = u
    BY <1>4
  <2> HIDE DEF a, u
  <2>2. /\ Row(d) \in [1..n -> Seq(Element)] /\ Chained!Contents(d) = Chained!Flat(Row(d))
        /\ \A i \in 1..n : Row(d)[i] = d.data[i - 1]
    BY <1>1, RowIs
  <2>3. /\ Row(a) \in [1..n -> Seq(Element)] /\ Chained!Contents(a) = Chained!Flat(Row(a))
        /\ \A i \in 1..n : Row(a)[i] = a.data[i - 1]
    BY <1>1, <2>1, RowIs
  <2> QED
    BY <2>1, <2>2, <2>3
<1>7. Chained!Contents(b) = Chained!Contents(a) /\ Chained!Contents(a) \in Seq(Element)
  <2>1. b.max = a.max /\ b.data = a.data
    BY <1>5
  <2>2. a \in [max : {n}, count : Nat, data : [0..n - 1 -> Seq(Element)]]
    BY <1>4
  <2> HIDE DEF a, b
  <2>3. Chained!Contents(a) \in Seq(Element)
    BY <1>1, <2>2, ContentsAre
  <2> QED
    BY <2>1, <2>3 DEF Chained!Contents
<1>8. Len(Chained!Flat(Row(a))) = Len(Chained!Flat(Row(d))) + j
  <2>1. t + 1 \in 1..n /\ (t + 1) - 1 = t /\ \A i \in 1..n : i - 1 \in 0..n - 1 /\ (i # t + 1 => i - 1 # t)
    BY <1>1, <1>2
  <2>2. Row(a)[t + 1] = c /\ Row(d)[t + 1] = d.data[t]
    BY <1>4, <1>6, <2>1
  <2>3. \A i \in 1..n : i # t + 1 => Row(a)[i] = Row(d)[i]
    BY <1>4, <1>6, <2>1
  <2> DEFINE p == Row(a)
             q == Row(d)
             m == t + 1
  <2>4. /\ p \in [1..n -> Seq(Element)] /\ q \in [1..n -> Seq(Element)] /\ m \in 1..n
        /\ \A i \in 1..n : i # m => p[i] = q[i]
    BY <1>6, <2>1, <2>3
  <2> HIDE DEF p, q, m
  <2>5. n \in Nat
    BY <1>1
  <2>6. \A k_1 \in Int : Len(p[m]) = Len(q[m]) + k_1
                      => Len(Chained!Flat(p)) = Len(Chained!Flat(q)) + k_1
    BY <2>4, <2>5, FlatLength, Zenon
  <2>7. Len(p[m]) = Len(q[m]) + j
    BY <1>3, <2>2 DEF p, q, m
  <2>8. Len(Chained!Flat(p)) = Len(Chained!Flat(q)) + j
    BY <1>1, <2>6, <2>7
  <2> QED
    BY <2>8 DEF p, q
<1>9. d.count + j = Len(Chained!Contents(b)) /\ d.count + j \in Nat
  BY <1>6, <1>7, <1>8 DEF GoodDict
<1>10. \A s \in 0..n - 1 : GoodChain(n, u[s], s, g)
  <2> SUFFICES ASSUME NEW s \in 0..n - 1 PROVE GoodChain(n, u[s], s, g)
    OBVIOUS
  <2>1. CASE s = t
    BY <1>4, <2>1
  <2>2. CASE s # t
    <3>1. u[s] = d.data[s] /\ GoodChain(n, d.data[s], s, f)
      BY <1>4, <2>2 DEF GoodDict
    <3> QED
      BY <2>2, <3>1 DEF GoodChain
  <2> QED
    BY <2>1, <2>2
<1> HIDE DEF u, t
<1>11. b \in [max : {n}, count : Nat, data : [0..n - 1 -> Seq(Element)]] /\ b.data = u /\ b.count = d.count + j
  BY <1>4, <1>5, <1>9
<1> HIDE DEF b
<1>12. GoodDict(b, n, g)
  BY <1>9, <1>10, <1>11 DEF GoodDict
<1> QED
  BY <1>12 DEF b

(* The chain of k, and what the walk along it for k finds.                 *)
LEMMA ChainIs ==
  ASSUME NEW n \in 1..Size, NEW d, NEW f, GoodDict(d, n, f), NEW k \in Key
  PROVE  /\ Chained!Home(d, k) \in 0..n - 1 /\ Chained!Home(d, k) = HashOf[k] % n
         /\ Chained!Chain(d, k) = d.data[Chained!Home(d, k)]
         /\ Chained!Chain(d, k) \in Seq(Element)
         /\ GoodChain(n, Chained!Chain(d, k), Chained!Home(d, k), f)
         /\ \A i \in Chained!Match(d, k) :
              i \in 1..Len(Chained!Chain(d, k)) /\ KeyOf[Chained!Chain(d, k)[i]] = k
         /\ Chained!Match(d, k) = {}
              => \A i \in 1..Len(Chained!Chain(d, k)) : KeyOf[Chained!Chain(d, k)[i]] # k
<1> DEFINE t == Chained!Home(d, k)
           c == Chained!Chain(d, k)
<1>1. n \in Nat /\ n >= 1 /\ d.max = n /\ HashOf[k] \in Int
  BY SizeIs, ElementIs DEF GoodDict
<1>2. t \in 0..n - 1 /\ t = HashOf[k] % n /\ c = d.data[t]
  BY <1>1 DEF Chained!Home, Chained!Chain
<1>3. GoodChain(n, c, t, f) /\ c \in Seq(Element) /\ DOMAIN c = 1..Len(c) /\ Len(c) \in Nat
  <2>1. GoodChain(n, c, t, f)
    BY <1>2 DEF GoodDict
  <2>2. c \in Seq(Element)
    BY <2>1 DEF GoodChain
  <2> HIDE DEF c
  <2> QED
    BY <2>1, <2>2
<1>4. \A i \in Chained!Match(d, k) : i \in 1..Len(c) /\ KeyOf[c[i]] = k
  BY <1>3 DEF Chained!Match
<1>5. ASSUME NEW i \in 1..Len(c), KeyOf[c[i]] = k PROVE Chained!Match(d, k) # {}
  <2> DEFINE S == {x \in 1..Len(c) : KeyOf[c[x]] = k}
  <2>1. S \in SUBSET Nat /\ S # {}
    BY <1>3, <1>5
  <2>2. PICK x \in S : \A y \in S : x <= y
    BY <2>1, LeastElement
  <2>3. x \in 1..Len(c) /\ KeyOf[c[x]] = k
    OBVIOUS
  <2>4. \A y \in 1..x - 1 : KeyOf[c[y]] # k
    <3> SUFFICES ASSUME NEW y \in 1..x - 1, KeyOf[c[y]] = k PROVE FALSE
      OBVIOUS
    <3>1. y \in S /\ ~(x <= y)
      BY <1>3, <2>3
    <3> QED
      BY <2>2, <3>1
  <2> QED
    BY <1>3, <2>3, <2>4 DEF Chained!Match
<1> QED
  BY <1>2, <1>3, <1>4, <1>5

LEMMA PushKeeps ==
  ASSUME NEW n \in 1..Size, NEW d, NEW f, GoodDict(d, n, f), NEW e \in Element,
         Chained!Match(d, KeyOf[e]) = {}
  PROVE  GoodDict(Chained!Push(d, e), n, f \ {e})
<1> DEFINE k == KeyOf[e]
           t == Chained!Home(d, k)
           c == Chained!Chain(d, k)
           b == <<e>> \o c
<1>1. k \in Key
  BY ElementIs
<1>2. /\ t \in 0..n - 1 /\ t = HashOf[k] % n /\ c \in Seq(Element) /\ Len(c) \in Nat
      /\ GoodChain(n, c, t, f) /\ \A i \in 1..Len(c) : KeyOf[c[i]] # k
  BY <1>1, ChainIs
<1> HIDE DEF k, t, c
<1>3. /\ b \in Seq(Element) /\ Len(b) = Len(c) + 1
      /\ \A i \in 1..Len(b) : b[i] = IF i = 1 THEN e ELSE c[i - 1]
  BY <1>2
<1> HIDE DEF b
<1>4. \A i \in 1..Len(b) : i # 1 => i - 1 \in 1..Len(c) /\ b[i] = c[i - 1]
  BY <1>2, <1>3
<1>5. b[1] = e /\ 1 \in 1..Len(b)
  BY <1>2, <1>3
<1>6. \A i \in 1..Len(b) : HashOf[KeyOf[b[i]]] % n = t /\ b[i] \notin f \ {e}
  <2>1. \A i \in 1..Len(c) : HashOf[KeyOf[c[i]]] % n = t /\ c[i] \notin f
    BY <1>2 DEF GoodChain
  <2>2. HashOf[KeyOf[e]] % n = t
    BY <1>2 DEF k
  <2> QED
    BY <1>4, <1>5, <2>1, <2>2
<1>7. \A i, j \in 1..Len(b) : KeyOf[b[i]] = KeyOf[b[j]] => i = j
  <2> SUFFICES ASSUME NEW i \in 1..Len(b), NEW j \in 1..Len(b), KeyOf[b[i]] = KeyOf[b[j]] PROVE i = j
    OBVIOUS
  <2>1. CASE i # 1 /\ j # 1
    <3>1. \A x, y \in 1..Len(c) : KeyOf[c[x]] = KeyOf[c[y]] => x = y
      BY <1>2 DEF GoodChain
    <3>2. /\ i - 1 \in 1..Len(c) /\ b[i] = c[i - 1]
          /\ j - 1 \in 1..Len(c) /\ b[j] = c[j - 1]
      BY <1>4, <2>1
    <3>3. i - 1 = j - 1
      BY <3>1, <3>2
    <3> QED
      BY <3>3
  <2>2. CASE i = 1 /\ j # 1
    BY <1>2, <1>4, <1>5, <2>2 DEF k
  <2>3. CASE i # 1 /\ j = 1
    BY <1>2, <1>4, <1>5, <2>3 DEF k
  <2> QED
    BY <2>1, <2>2, <2>3
<1>8. GoodChain(n, b, t, f \ {e})
  BY <1>3, <1>6, <1>7 DEF GoodChain
<1>9. /\ f \ {e} \in SUBSET Element /\ 1 \in {-1, 0, 1}
      /\ \A s \in 0..n - 1 : \A i \in 1..Len(d.data[s]) : d.data[s][i] \notin f \ {e}
  BY DEF GoodDict, GoodChain
<1>10. GoodDict(Chained!Relink(d, k, b, 1), n, f \ {e})
  BY <1>1, <1>3, <1>8, <1>9, RelinkKeeps DEF t, c
<1> QED
  BY <1>10 DEF Chained!Push, b, c, k

LEMMA ExchangeKeeps ==
  ASSUME NEW n \in 1..Size, NEW d, NEW f, GoodDict(d, n, f), NEW e \in Element,
         NEW m \in Chained!Match(d, KeyOf[e])
  PROVE  GoodDict(Chained!Relink(d, KeyOf[e], [Chained!Chain(d, KeyOf[e]) EXCEPT ![m] = e], 0), n,
                  (f \cup {Chained!Chain(d, KeyOf[e])[m]}) \ {e})
<1> DEFINE k == KeyOf[e]
           t == Chained!Home(d, k)
           c == Chained!Chain(d, k)
           b == [c EXCEPT ![m] = e]
           g == (f \cup {c[m]}) \ {e}
<1>1. k \in Key
  BY ElementIs
<1>2. /\ t \in 0..n - 1 /\ t = HashOf[k] % n /\ c = d.data[t] /\ c \in Seq(Element) /\ Len(c) \in Nat
      /\ GoodChain(n, c, t, f) /\ m \in 1..Len(c) /\ KeyOf[c[m]] = k
  BY <1>1, ChainIs
<1> HIDE DEF k, t, c
<1>3. /\ b \in Seq(Element) /\ Len(b) = Len(c) /\ b[m] = e
      /\ \A i \in 1..Len(b) : i # m => b[i] = c[i]
  BY <1>2
<1> HIDE DEF b
<1>4. \A i \in 1..Len(b) : KeyOf[b[i]] = KeyOf[c[i]]
  BY <1>2, <1>3 DEF k
<1>5. \A i \in 1..Len(b) : HashOf[KeyOf[b[i]]] % n = t /\ b[i] \notin g
  <2> SUFFICES ASSUME NEW i \in 1..Len(b) PROVE HashOf[KeyOf[b[i]]] % n = t /\ b[i] \notin g
    OBVIOUS
  <2>1. HashOf[KeyOf[b[i]]] % n = t
    BY <1>2, <1>3, <1>4 DEF GoodChain
  <2>2. CASE i = m
    BY <1>3, <2>1, <2>2
  <2>3. CASE i # m
    <3>1. b[i] = c[i] /\ c[i] \notin f /\ KeyOf[c[i]] # KeyOf[c[m]]
      BY <1>2, <1>3, <2>3 DEF GoodChain
    <3> QED
      BY <2>1, <3>1
  <2> QED
    BY <2>2, <2>3
<1>6. \A i, j \in 1..Len(b) : KeyOf[b[i]] = KeyOf[b[j]] => i = j
  BY <1>2, <1>3, <1>4 DEF GoodChain
<1>7. GoodChain(n, b, t, g)
  BY <1>3, <1>5, <1>6 DEF GoodChain
<1>8. c[m] \in Element /\ g \in SUBSET Element
  BY <1>2 DEF GoodDict
<1>9. \A s \in 0..n - 1 : \A i \in 1..Len(d.data[s]) : s # t => d.data[s][i] \notin g
  <2> SUFFICES ASSUME NEW s \in 0..n - 1, NEW i \in 1..Len(d.data[s]), s # t
               PROVE  d.data[s][i] \notin g
    OBVIOUS
  <2>1. d.data[s][i] \notin f /\ HashOf[KeyOf[d.data[s][i]]] % n = s
    BY DEF GoodDict, GoodChain
  <2>2. HashOf[KeyOf[c[m]]] % n = t
    BY <1>2
  <2> QED
    BY <2>1, <2>2
<1>10. 0 \in {-1, 0, 1} /\ Len(b) = Len(c) + 0
  BY <1>2, <1>3
<1>11. GoodDict(Chained!Relink(d, k, b, 0), n, g)
  <2> HIDE DEF g
  <2> QED
    BY <1>1, <1>7, <1>8, <1>9, <1>10, RelinkKeeps DEF t, c
<1> QED
  BY <1>11 DEF b, c, k

LEMMA CutKeeps ==
  ASSUME NEW n \in 1..Size, NEW d, NEW f, GoodDict(d, n, f), NEW k \in Key,
         NEW m \in Chained!Match(d, k)
  PROVE  GoodDict(Chained!Cut(d, k, m), n, f)
<1> DEFINE t == Chained!Home(d, k)
           c == Chained!Chain(d, k)
           b == SubSeq(c, 1, m - 1) \o SubSeq(c, m + 1, Len(c))
           From(i) == IF i < m THEN i ELSE i + 1
<1>1. /\ t \in 0..n - 1 /\ c \in Seq(Element) /\ Len(c) \in Nat
      /\ GoodChain(n, c, t, f) /\ m \in 1..Len(c)
  BY ChainIs
<1> HIDE DEF t, c
<1>2. /\ b \in Seq(Element) /\ Len(b) = Len(c) + (-1)
      /\ \A i \in 1..Len(b) : b[i] = c[From(i)]
  <2> DEFINE p == SubSeq(c, 1, m - 1)
             q == SubSeq(c, m + 1, Len(c))
  <2>1. /\ p \in Seq(Element) /\ Len(p) = m - 1 /\ \A i \in 1..m - 1 : p[i] = c[i]
        /\ q \in Seq(Element) /\ Len(q) = Len(c) - m /\ \A i \in 1..Len(c) - m : q[i] = c[m + i]
    BY <1>1
  <2> HIDE DEF p, q
  <2>2. /\ b \in Seq(Element) /\ Len(b) = Len(p) + Len(q)
        /\ \A i \in 1..Len(p) + Len(q) : b[i] = IF i <= Len(p) THEN p[i] ELSE q[i - Len(p)]
    BY <2>1, ConcatProperties DEF p, q
  <2> HIDE DEF b
  <2>3. Len(b) = Len(c) + (-1)
    BY <1>1, <2>1, <2>2
  <2>4. \A i \in 1..Len(b) : b[i] = c[From(i)]
    <3> SUFFICES ASSUME NEW i \in 1..Len(b) PROVE b[i] = c[From(i)]
      OBVIOUS
    <3>1. CASE i < m
      BY <1>1, <2>1, <2>2, <2>3, <3>1
    <3>2. CASE ~(i < m)
      <4>1. b[i] = q[i - (m - 1)] /\ i - (m - 1) \in 1..Len(c) - m
        BY <1>1, <2>1, <2>2, <2>3, <3>2
      <4>2. m + (i - (m - 1)) = i + 1
        BY <1>1
      <4>3. From(i) = i + 1
        BY <3>2
      <4> QED
        BY <2>1, <4>1, <4>2, <4>3
    <3> QED
      BY <3>1, <3>2
  <2> QED
    BY <2>2, <2>3, <2>4
<1> HIDE DEF b
<1>3. \A i \in 1..Len(b) : From(i) \in 1..Len(c)
  BY <1>1, <1>2
<1>4. \A i, j \in 1..Len(b) : From(i) = From(j) => i = j
  BY <1>1, <1>2
<1> HIDE DEF From
<1>5. \A i \in 1..Len(b) : HashOf[KeyOf[b[i]]] % n = t /\ b[i] \notin f
  <2> SUFFICES ASSUME NEW i \in 1..Len(b)
               PROVE  HashOf[KeyOf[b[i]]] % n = t /\ b[i] \notin f
    OBVIOUS
  <2>1. From(i) \in 1..Len(c) /\ b[i] = c[From(i)]
    BY <1>2, <1>3
  <2>2. \A j \in 1..Len(c) : HashOf[KeyOf[c[j]]] % n = t /\ c[j] \notin f
    BY ONLY <1>1 DEF GoodChain
  <2>3. HashOf[KeyOf[c[From(i)]]] % n = t /\ c[From(i)] \notin f
    BY ONLY <2>1, <2>2
  <2> QED
    BY ONLY <2>1, <2>3
<1>6. \A i, j \in 1..Len(b) : KeyOf[b[i]] = KeyOf[b[j]] => i = j
  BY <1>1, <1>2, <1>3, <1>4 DEF GoodChain
<1>7. GoodChain(n, b, t, f)
  BY <1>2, <1>5, <1>6 DEF GoodChain
<1>8. /\ f \in SUBSET Element /\ -1 \in {-1, 0, 1}
      /\ \A s \in 0..n - 1 : \A i \in 1..Len(d.data[s]) : d.data[s][i] \notin f
  BY DEF GoodDict, GoodChain
<1>9. GoodDict(Chained!Relink(d, k, b, -1), n, f)
  BY <1>2, <1>7, <1>8, RelinkKeeps DEF t, c
<1> QED
  BY <1>9 DEF Chained!Cut, b, c

LEMMA ConstructKeeps ==
  ASSUME NEW n \in 1..Size, NEW f \in SUBSET Element
  PROVE  GoodDict(Chained!Construct(n), n, f)
<1> DEFINE d == Chained!Construct(n)
<1>1. /\ d \in [max : {n}, count : Nat, data : [0..n - 1 -> Seq(Element)]]
      /\ d.count = 0 /\ \A s \in 0..n - 1 : d.data[s] = <<>>
  <2>1. <<>> \in Seq(Element)
    OBVIOUS
  <2> QED
    BY <2>1 DEF Chained!Construct
<1>2. n \in Nat
  BY SizeIs
<1> HIDE DEF d
<1>3. /\ Chained!Contents(d) \in Seq(Element)
      /\ \A x : x \in Chained!Range(Chained!Contents(d))
                <=> \E s \in 0..n - 1 : x \in Chained!Range(d.data[s])
  BY <1>1, <1>2, ContentsAre
<1>4. Chained!Range(<<>>) = {}
  BY DEF Chained!Range
<1>5. \A x : x \notin Chained!Range(Chained!Contents(d))
  BY <1>1, <1>3, <1>4
<1>6. Len(Chained!Contents(d)) = 0
  <2> DEFINE c == Chained!Contents(d)
  <2>1. c \in Seq(Element)
    BY <1>3
  <2>2. \A i \in DOMAIN c : c[i] \in Chained!Range(c)
    BY DEF Chained!Range
  <2> HIDE DEF c
  <2>3. Len(c) \in Nat /\ DOMAIN c = 1..Len(c)
    BY <2>1
  <2>4. Len(c) # 0 => 1 \in DOMAIN c
    BY <2>3
  <2> QED
    BY <1>5, <2>2, <2>3, <2>4 DEF c
<1>7. GoodDict(d, n, f)
  <2>1. \A s \in 0..n - 1 : GoodChain(n, d.data[s], s, f)
    <3>1. <<>> \in Seq(Element) /\ Len(<<>>) = 0 /\ \A s \in 1..0 : FALSE
      OBVIOUS
    <3> QED
      BY <1>1, <3>1 DEF GoodChain
  <2> QED
    BY <1>1, <1>6, <2>1 DEF GoodDict
<1> QED
  BY <1>7 DEF d

LEMMA DictInit == Chained!Init => Chained!DictInv
<1> SUFFICES ASSUME Chained!Init PROVE Chained!DictInv
  OBVIOUS
<1>1. PICK n \in 1..Size : obj = Chained!Construct(n) /\ aux = {}
  BY DEF Chained!Init
<1>2. GoodDict(obj, n, aux)
  BY <1>1, ConstructKeeps
<1> QED
  BY <1>2, DictInvIs DEF GoodNow

LEMMA DictKeeps == Chained!DictInv /\ Chained!Next => Chained!DictInv'
<1> SUFFICES ASSUME Chained!DictInv, Chained!Next PROVE Chained!DictInv'
  OBVIOUS
<1>1. PICK n \in 1..Size : GoodDict(obj, n, aux)
  BY DictInvIs DEF GoodNow
<1>2. SUFFICES GoodDict(obj', n, aux')
  <2>1. GoodDict(obj, n, aux)' <=> GoodDict(obj', n, aux')
    BY DEF GoodDict, GoodChain, Chained!Contents, Chained!Flat, Chained!Through
  <2>2. (Chained!DictInv <=> GoodNow)'
    BY DictInvIs, PTL
  <2>3. GoodDict(obj', n, aux') => GoodNow'
    BY <2>1 DEF GoodNow
  <2> QED
    BY <2>2, <2>3
<1>3. aux \in SUBSET Element /\ obj.max = n
  BY <1>1 DEF GoodDict
<1>4. ASSUME UNCHANGED <<obj, aux>> PROVE GoodDict(obj', n, aux')
  BY <1>1, <1>4
<1>5. ASSUME NEW k \in Key, Chained!Pop(k) PROVE GoodDict(obj', n, aux')
  <2>1. PICK m \in Chained!Match(obj, k) : obj' = Chained!Cut(obj, k, m)
    BY <1>5 DEF Chained!Pop
  <2>2. aux' = aux
    BY <1>5 DEF Chained!Pop
  <2> QED
    BY <1>1, <2>1, <2>2, CutKeeps
<1>6. ASSUME NEW e \in Element, Chained!Add(e) PROVE GoodDict(obj', n, aux')
  BY <1>1, <1>6, PushKeeps DEF Chained!Add
<1>7. ASSUME NEW e \in Element, Chained!Replace(e) PROVE GoodDict(obj', n, aux')
  <2>1. PICK m \in Chained!Match(obj, KeyOf[e]) : Chained!Exchange(obj, aux, m, e)
    BY <1>7 DEF Chained!Replace
  <2> QED
    BY <1>1, <2>1, ExchangeKeeps DEF Chained!Exchange
<1>8. ASSUME Chained!Renew PROVE GoodDict(obj', n, aux')
  <2>1. n \in Nat /\ obj \in [max : {n}, count : Nat, data : [0..n - 1 -> Seq(Element)]]
    BY <1>1, SizeIs DEF GoodDict
  <2> DEFINE c == Chained!Contents(obj)
  <2>2. c \in Seq(Element)
    BY <2>1, ContentsAre
  <2> HIDE DEF c
  <2>3. Chained!Range(c) \subseteq Element
    BY <2>2 DEF Chained!Range
  <2>4. aux' \in SUBSET Element /\ obj' = Chained!Construct(n)
    BY <1>3, <1>8, <2>3 DEF Chained!Renew, c
  <2> QED
    BY <2>4, ConstructKeeps
<1> QED
  BY <1>4, <1>5, <1>6, <1>7, <1>8
  DEF Chained!Next, Chained!Get, Chained!GetFails, Chained!PopFails, Chained!NoMemory,
      Chained!Values, Chained!Count, Chained!SeeAll

-----------------------------------------------------------------------------
(* Queue and double queue: the nodes in use lie on one way through the     *)
(* links, and where a walk along the links leads is that way.              *)

Links == INSTANCE LinkedList

(* From each of the k nodes of w the link leads to the next one.           *)
Way(l, link, k, w) ==
  /\ k \in Nat /\ w \in [1..k -> Links!Id]
  /\ \A i, j \in 1..k : w[i] = w[j] => i = j
  /\ \A i \in 1..k - 1 : l.node[w[i]][link] = w[i + 1]
  /\ k > 0 => l.node[w[k]][link] = Null

LEMMA WalkIs ==
  ASSUME NEW l \in Links!List, NEW link \in {"next", "prev"},
         NEW k, NEW w, Way(l, link, k, w), NEW n, k = 0 => n = Null, k # 0 => n = w[1]
  PROVE  Links!Walk(l, n, link) = w /\ k <= Nodes /\ DOMAIN w = 1..k /\ Len(w) = k
<1> USE DEF Way
<1> DEFINE S == Links!Id \cup {Null}
           After == [m \in S |-> IF m = Null THEN Null ELSE l.node[m][link]]
           Turn(h) == [i \in Links!Id |-> IF i = 1 THEN n ELSE After[h[i - 1]]]
           met == CHOOSE h : h = Turn(h)
           F == [i \in 1..Nodes |-> After]
<1>1. /\ Nodes \in Nat /\ Null \notin Links!Id /\ Links!Id = 1..Nodes
      /\ \A m \in Links!Id : l.node[m][link] \in S
  BY NodesIs DEF Links!List, Links!Id
<1>2. k <= Nodes
  <2>1. IsFiniteSet(1..Nodes) /\ Cardinality(1..Nodes) = Nodes /\ Cardinality(1..k) = k
    BY <1>1, FS_Interval
  <2>2. w \in Injection(1..k, 1..Nodes)
    BY <1>1 DEF Injection, IsInjective
  <2> QED
    BY <2>1, <2>2, FS_Injection
<1>3. n \in S /\ After \in [S -> S]
  <2>1. After \in [S -> S]
    BY <1>1
  <2>2. k # 0 => w[1] \in Links!Id
    OBVIOUS
  <2> QED
    BY <2>1, <2>2
<1> HIDE DEF After, S
<1>4. PICK f : Run(f, Nodes, S, n, F)
  BY <1>1, <1>3, Iterates DEF Turns
<1>5. met = Turn(met)
  <2> DEFINE g == [i \in Links!Id |-> f[i - 1]]
  <2>1. /\ f[0] = n /\ \A i \in 1..Nodes : f[i] = After[f[i - 1]]
    BY <1>4 DEF Run
  <2>2. \A i \in Links!Id : g[i] = IF i = 1 THEN n ELSE After[g[i - 1]]
    <3> SUFFICES ASSUME NEW i \in Links!Id PROVE g[i] = IF i = 1 THEN n ELSE After[g[i - 1]]
      OBVIOUS
    <3>1. CASE i = 1
      <4>1. g[i] = f[0]
        BY <3>1
      <4> QED
        BY <2>1, <3>1, <4>1
    <3>2. CASE i # 1
      <4>1. i - 1 \in 1..Nodes /\ i - 1 \in Links!Id
        BY <1>1, <3>2
      <4>2. g[i] = f[i - 1] /\ g[i - 1] = f[(i - 1) - 1]
        BY <4>1
      <4> QED
        BY <2>1, <3>2, <4>1, <4>2
    <3> QED
      BY <3>1, <3>2
  <2>3. g \in [Links!Id -> S]
    <3>1. \A i \in Links!Id : i - 1 \in 0..Nodes
      BY <1>1
    <3> QED
      BY <1>4, <3>1 DEF Run
  <2> HIDE DEF g
  <2>4. g = Turn(g)
    BY <2>2, <2>3
  <2> QED
    BY <2>4
<1>6. Links!Walk(l, n, link) = SubSeq(met, 1, Cardinality({i \in Links!Id : met[i] # Null}))
  BY DEF Links!Walk, After, S, Links!Cardinality, Cardinality
<1> HIDE DEF met
<1>7. \A i \in Links!Id : met[i] = IF i = 1 THEN n ELSE After[met[i - 1]]
  BY <1>5
<1>8. \A i \in 1..Nodes : met[i] = IF i <= k THEN w[i] ELSE Null
  <2> DEFINE G == {i \in 0..Nodes : i > 0 => met[i] = IF i <= k THEN w[i] ELSE Null}
  <2>1. 0 \in G
    BY <1>1
  <2>2. ASSUME NEW i \in 1..Nodes, i - 1 \in G PROVE i \in G
    <3>1. CASE i = 1
      BY <1>1, <1>7, <3>1
    <3>2. CASE i # 1
      <4>1. i - 1 \in 1..Nodes /\ met[i] = After[met[i - 1]]
        BY <1>1, <1>7, <3>2
      <4>2. met[i - 1] = IF i - 1 <= k THEN w[i - 1] ELSE Null
        BY <2>2, <4>1
      <4>3. CASE i <= k
        <5>1. i - 1 \in 1..k - 1 /\ i - 1 <= k /\ (i - 1) + 1 = i /\ i - 1 \in 1..k
          BY <1>1, <4>1, <4>3
        <5>2. met[i - 1] = w[i - 1] /\ w[i - 1] \in Links!Id /\ l.node[w[i - 1]][link] = w[i]
          BY <4>2, <5>1
        <5>3. After[w[i - 1]] = l.node[w[i - 1]][link]
          BY <1>1, <5>2 DEF After, S
        <5> QED
          BY <4>1, <4>3, <5>2, <5>3
      <4>4. CASE i - 1 = k
        <5>1. k > 0 /\ w[k] \in Links!Id
          BY <4>1, <4>4
        <5>2. After[w[k]] = Null
          BY <1>1, <5>1 DEF After, S
        <5> QED
          BY <4>1, <4>2, <4>4, <5>2
      <4>5. CASE i - 1 > k
        <5>1. After[Null] = Null
          BY DEF After, S
        <5> QED
          BY <1>1, <4>1, <4>2, <4>5, <5>1
      <4> QED
        BY <1>1, <4>3, <4>4, <4>5
    <3> QED
      BY <3>1, <3>2
  <2> HIDE DEF G
  <2>3. \A i \in 0..Nodes : i \in G
    BY <1>1, <2>1, <2>2, InductionUpTo
  <2>4. \A i \in 1..Nodes : i \in 0..Nodes /\ i > 0
    OBVIOUS
  <2> QED
    BY <2>3, <2>4 DEF G
<1>9. {i \in Links!Id : met[i] # Null} = 1..k
  <2>1. \A i \in 1..k : i \in 1..Nodes /\ i <= k /\ w[i] # Null
    BY <1>1, <1>2
  <2>2. \A i \in 1..Nodes : i <= k => i \in 1..k
    BY <1>1
  <2> QED
    BY <1>1, <1>8, <2>1, <2>2
<1>10. Links!Walk(l, n, link) = SubSeq(met, 1, k)
  <2>1. Cardinality(1..k) = k
    BY FS_Interval
  <2> QED
    BY <1>6, <1>9, <2>1
<1>11. SubSeq(met, 1, k) = w
  <2>1. met = [i \in 1..Nodes |-> met[i]]
    BY <1>1, <1>5
  <2>2. \A i \in 1..Nodes : met[i] \in S
    BY <1>1, <1>8 DEF S
  <2>3. met \in Seq(S) /\ Len(met) = Nodes
    BY <1>1, <2>1, <2>2
  <2>4. /\ SubSeq(met, 1, k) \in Seq(S) /\ Len(SubSeq(met, 1, k)) = k
        /\ \A i \in 1..k : SubSeq(met, 1, k)[i] = met[i]
    BY <1>1, <1>2, <2>3
  <2>5. \A i \in 1..k : SubSeq(met, 1, k)[i] = w[i]
    BY <1>1, <1>2, <1>8, <2>4
  <2> DEFINE q == SubSeq(met, 1, k)
  <2>6. q = [i \in 1..k |-> q[i]]
    BY <2>4
  <2> QED
    BY <2>5, <2>6
<1> QED
  BY <1>2, <1>10, <1>11


LEMMA FifoWalk ==
  ASSUME NEW l, NEW n, NEW link PROVE Fifo!Walk(l, n, link) = Links!Walk(l, n, link)
BY DEF Fifo!Walk, Links!Walk, Fifo!Id, Links!Id, Fifo!Cardinality, Links!Cardinality

LEMMA DequeWalk ==
  ASSUME NEW l, NEW n, NEW link PROVE Deque!Walk(l, n, link) = Links!Walk(l, n, link)
BY DEF Deque!Walk, Links!Walk, Deque!Id, Links!Id, Deque!Cardinality, Links!Cardinality

(* The nodes in use are w[1], ..., w[k], in this order from the front.     *)
OneWay(l, k, w) ==
  /\ l \in Links!List
  /\ k \in Nat /\ w \in [1..k -> Links!Id]
  /\ \A i, j \in 1..k : w[i] = w[j] => i = j
  /\ \A n \in Links!Id : l.node[n].live <=> \E i \in 1..k : w[i] = n
  /\ \A i \in 1..k - 1 : l.node[w[i]].next = w[i + 1]
  /\ k = 0 => l.front = Null /\ l.rear = Null
  /\ k > 0 => l.front = w[1] /\ l.rear = w[k] /\ l.node[w[k]].next = Null

(* The previous links lead back.                                           *)
BothWays(l, k, w) ==
  /\ OneWay(l, k, w)
  /\ l.size = k
  /\ \A i \in 1..k - 1 : l.node[w[i + 1]].prev = w[i]
  /\ k > 0 => l.node[w[1]].prev = Null

LEMMA EmptyWay == BothWays(Links!Empty, 0, <<>>)
<1> DEFINE l == Links!Empty
<1>1. /\ l \in Links!List /\ l.front = Null /\ l.rear = Null /\ l.size = 0
      /\ \A n \in Links!Id : ~l.node[n].live
  BY DEF Links!Empty, Links!List, Links!Unallocated
<1>2. /\ <<>> \in [1..0 -> Links!Id] /\ 0 \in Nat /\ \A i \in 1..0 : FALSE
      /\ \A i \in 1..0 - 1 : FALSE
  OBVIOUS
<1> HIDE DEF l
<1>3. BothWays(l, 0, <<>>)
  BY <1>1, <1>2 DEF BothWays, OneWay
<1> QED
  BY <1>3 DEF l

LEMMA FreshIs ==
  ASSUME NEW l, Links!Spare(l) # {}
  PROVE  Links!Fresh(l) \in Links!Id /\ ~l.node[Links!Fresh(l)].live
<1>1. Links!Spare(l) \in SUBSET Nat
  BY NodesIs DEF Links!Spare, Links!Id
<1>2. \E n \in Links!Spare(l) : \A m \in Links!Spare(l) : n <= m
  BY <1>1, LeastElement
<1>3. Links!Fresh(l) \in Links!Spare(l)
  BY <1>2 DEF Links!Fresh
<1> QED
  BY <1>3 DEF Links!Spare

LEMMA WayIs ==
  ASSUME NEW l, NEW k, NEW w, OneWay(l, k, w)
  PROVE  /\ l \in Links!List /\ Nodes \in Nat /\ Null \notin Links!Id /\ k \in Nat
         /\ \A i \in 1..k : w[i] \in Links!Id /\ l.node[w[i]].live
         /\ k > 0 => 1 \in 1..k /\ k \in 1..k
         /\ Links!Walk(l, l.front, "next") = w /\ DOMAIN w = 1..k /\ Len(w) = k
<1>1. /\ l \in Links!List /\ Nodes \in Nat /\ Null \notin Links!Id /\ k \in Nat
      /\ \A i \in 1..k : w[i] \in Links!Id /\ l.node[w[i]].live
      /\ k > 0 => 1 \in 1..k /\ k \in 1..k
  BY NodesIs DEF OneWay, Links!Id
<1>2. (k = 0 => l.front = Null) /\ (k # 0 => l.front = w[1])
  BY <1>1 DEF OneWay
<1>3. /\ "next" \in {"next", "prev"} /\ w \in [1..k -> Links!Id]
      /\ \A i, j \in 1..k : w[i] = w[j] => i = j
      /\ \A i \in 1..k - 1 : l.node[w[i]]["next"] = w[i + 1]
      /\ k > 0 => l.node[w[k]]["next"] = Null
  BY DEF OneWay
<1>4. Way(l, "next", k, w)
  BY <1>1, <1>3 DEF Way
<1>5. Links!Walk(l, l.front, "next") = w /\ DOMAIN w = 1..k /\ Len(w) = k
  BY <1>1, <1>2, <1>3, <1>4, WalkIs
<1> QED
  BY <1>1, <1>5

(* What it is to add node f behind the others ...                          *)
Behind(r, l, k, w, f) ==
  /\ r \in Links!List /\ r.size = l.size + 1
  /\ r.rear = f /\ r.front = IF k = 0 THEN f ELSE l.front
  /\ r.node[f].live /\ r.node[f].next = Null /\ r.node[f].content \in Element
  /\ r.node[f].prev = IF k = 0 THEN Null ELSE w[k]
  /\ \A n \in Links!Id : n # f =>
       /\ r.node[n].live <=> l.node[n].live
       /\ r.node[n].content = l.node[n].content
       /\ r.node[n].prev = l.node[n].prev
       /\ r.node[n].next = IF k > 0 /\ n = w[k] THEN f ELSE l.node[n].next

(* ... and before them.                                                    *)
Before(r, l, k, w, f) ==
  /\ r \in Links!List /\ r.size = l.size + 1
  /\ r.front = f /\ r.rear = IF k = 0 THEN f ELSE l.rear
  /\ r.node[f].live /\ r.node[f].prev = Null /\ r.node[f].content \in Element
  /\ r.node[f].next = IF k = 0 THEN Null ELSE w[1]
  /\ \A n \in Links!Id : n # f =>
       /\ r.node[n].live <=> l.node[n].live
       /\ r.node[n].content = l.node[n].content
       /\ r.node[n].next = l.node[n].next
       /\ r.node[n].prev = IF k > 0 /\ n = w[1] THEN f ELSE l.node[n].prev

Cell ==
  [live : BOOLEAN, content : Element \cup {Null},
   prev : Links!Id \cup {Null}, next : Links!Id \cup {Null}]

LEMMA ListIs ==
  /\ \A l \in Links!List : /\ l.front \in Links!Id \cup {Null} /\ l.rear \in Links!Id \cup {Null}
                          /\ l.size \in Nat /\ l.node \in [Links!Id -> Cell]
                          /\ l = [front |-> l.front, rear |-> l.rear, size |-> l.size, node |-> l.node]
  /\ \A a, b \in Links!Id \cup {Null} : \A z \in Nat : \A g \in [Links!Id -> Cell] :
       [front |-> a, rear |-> b, size |-> z, node |-> g] \in Links!List
BY DEF Links!List, Cell

LEMMA NewIs ==
  ASSUME NEW e \in Element
  PROVE  /\ Links!New(e) \in Cell /\ Links!New(e).live /\ Links!New(e).content \in Element
         /\ Links!New(e).prev = Null /\ Links!New(e).next = Null
         /\ \A p \in Links!Id \cup {Null} :
              /\ [Links!New(e) EXCEPT !.prev = p] \in Cell /\ [Links!New(e) EXCEPT !.next = p] \in Cell
              /\ [Links!New(e) EXCEPT !.prev = p].content \in Element
              /\ [Links!New(e) EXCEPT !.next = p].content \in Element
              /\ [Links!New(e) EXCEPT !.prev = p].live /\ [Links!New(e) EXCEPT !.next = p].live
              /\ [Links!New(e) EXCEPT !.prev = p].prev = p /\ [Links!New(e) EXCEPT !.next = p].next = p
              /\ [Links!New(e) EXCEPT !.prev = p].next = Null /\ [Links!New(e) EXCEPT !.next = p].prev = Null
BY DEF Cell, Links!New

LEMMA UnallocatedIs == Links!Unallocated \in Cell /\ ~Links!Unallocated.live
BY DEF Cell, Links!Unallocated

LEMMA EndIs ==
  ASSUME NEW l \in Links!List, NEW link \in {"next", "prev"}, NEW q \in Links!Id,
         l.node[q][link] = Null
  PROVE  Links!Walk(l, q, link)[Len(Links!Walk(l, q, link))] = q
<1> SUFFICES ASSUME NEW k \in Nat, k = 1
             PROVE  Links!Walk(l, q, link)[Len(Links!Walk(l, q, link))] = q
  OBVIOUS
<1> DEFINE v == [i \in 1..k |-> q]
<1>1. v \in [1..k -> Links!Id] /\ v[1] = q /\ v[k] = q /\ \A i \in 1..k : i = 1
  OBVIOUS
<1> HIDE DEF v
<1>2. /\ \A i, j \in 1..k : v[i] = v[j] => i = j
      /\ \A i \in 1..k - 1 : l.node[v[i]][link] = v[i + 1]
      /\ k > 0 => l.node[v[k]][link] = Null
      /\ (k = 0 => q = Null) /\ (k # 0 => q = v[1])
  BY <1>1
<1>3. Way(l, link, k, v)
  BY <1>1, <1>2 DEF Way
<1>4. (k = 0 => q = Null) /\ (k # 0 => q = v[1])
  BY <1>2
<1>5. Links!Walk(l, q, link) = v /\ Len(v) = k
  BY ONLY l \in Links!List, link \in {"next", "prev"}, <1>3, <1>4, WalkIs
<1> QED
  BY <1>1, <1>5

LEMMA RearIs ==
  ASSUME NEW l, NEW k, NEW w, OneWay(l, k, w), NEW f \in Links!Id, ~l.node[f].live,
         NEW e \in Element
  PROVE  Behind(Links!LinkRear(l, f, e), l, k, w, f)
<1> DEFINE r == Links!LinkRear(l, f, e)
<1>1. /\ l \in Links!List /\ Null \notin Links!Id /\ k \in Nat
      /\ \A i \in 1..k : w[i] \in Links!Id /\ l.node[w[i]].live
      /\ k > 0 => 1 \in 1..k /\ k \in 1..k
  BY WayIs
<1>2. CASE k = 0
  <2>1. l.rear = Null
    BY <1>2 DEF OneWay
  <2>2. r = [l EXCEPT !.front = f, !.rear = f, !.size = @ + 1, !.node[f] = Links!New(e)]
    BY <2>1 DEF Links!LinkRear
  <2> HIDE DEF r
  <2> DEFINE g == [l.node EXCEPT ![f] = Links!New(e)]
  <2>3. g \in [Links!Id -> Cell] /\ g[f] = Links!New(e) /\ \A n \in Links!Id : n # f => g[n] = l.node[n]
    BY <1>1, ListIs, NewIs
  <2>4. r = [front |-> f, rear |-> f, size |-> l.size + 1, node |-> g]
    BY <1>1, <2>2 DEF Links!List
  <2> HIDE DEF g
  <2>5. /\ r \in Links!List /\ r.front = f /\ r.rear = f /\ r.size = l.size + 1 /\ r.node = g
    BY <1>1, <2>3, <2>4, ListIs
  <2>6. g[f].live /\ g[f].next = Null /\ g[f].prev = Null /\ g[f].content \in Element
    BY <2>3, NewIs
  <2>7. Behind(r, l, k, w, f)
    BY <1>1, <1>2, <2>3, <2>5, <2>6 DEF Behind
  <2> QED
    BY <2>7 DEF r
<1>3. CASE k > 0
  <2> DEFINE q == w[k]
  <2>1. l.rear = q /\ q \in Links!Id /\ q # Null /\ q # f /\ l.node[q].next = Null
    BY <1>1, <1>3 DEF OneWay
  <2>2. Links!End(l, q, "next") = q
    <3>1. "next" \in {"next", "prev"} /\ l.node[q]["next"] = Null
      BY <2>1
    <3> HIDE DEF q
    <3> QED
      BY <1>1, <2>1, <3>1, EndIs DEF Links!End
  <2>3. r = [l EXCEPT !.rear = f, !.size = @ + 1,
                      !.node = [@ EXCEPT ![q].next = f, ![f] = [Links!New(e) EXCEPT !.prev = q]]]
    BY <2>1, <2>2 DEF Links!LinkRear
  <2> HIDE DEF r, q
  <2> DEFINE c == [Links!New(e) EXCEPT !.prev = q]
             b == [l.node[q] EXCEPT !.next = f]
             g == [l.node EXCEPT ![q] = b, ![f] = c]
  <2>4. /\ b \in Cell /\ c \in Cell /\ c.live /\ c.next = Null /\ c.prev = q /\ c.content \in Element
        /\ b.live <=> l.node[q].live
        /\ b.content = l.node[q].content
        /\ b.prev = l.node[q].prev /\ b.next = f
    <3>1. l.node[q] \in Cell /\ q \in Links!Id \cup {Null} /\ f \in Links!Id \cup {Null}
      BY <1>1, <2>1, ListIs
    <3> HIDE DEF q
    <3>2. c \in Cell /\ c.live /\ c.next = Null /\ c.prev = q /\ c.content \in Element
      BY <3>1, NewIs
    <3> HIDE DEF c
    <3>3. /\ b \in Cell /\ (b.live <=> l.node[q].live) /\ b.content = l.node[q].content
          /\ b.prev = l.node[q].prev /\ b.next = f
      BY <3>1 DEF Cell
    <3> QED
      BY <3>2, <3>3
  <2>5. r = [l EXCEPT !.rear = f, !.size = @ + 1, !.node = g]
    BY <1>1, <2>1, <2>3, ListIs
  <2> HIDE DEF b, c
  <2>6. /\ g \in [Links!Id -> Cell] /\ g[f] = c /\ g[q] = b
        /\ \A n \in Links!Id : n # f /\ n # q => g[n] = l.node[n]
    BY <1>1, <2>1, <2>4, ListIs
  <2> HIDE DEF g
  <2>7. r = [front |-> l.front, rear |-> f, size |-> l.size + 1, node |-> g]
    BY <1>1, <2>5 DEF Links!List
  <2>8. /\ r \in Links!List /\ r.front = l.front /\ r.rear = f /\ r.size = l.size + 1 /\ r.node = g
    BY <1>1, <2>6, <2>7, ListIs
  <2>9. Behind(r, l, k, w, f)
    BY <1>1, <1>3, <2>1, <2>4, <2>6, <2>8 DEF Behind, q
  <2> QED
    BY <2>9 DEF r
<1> QED
  BY <1>1, <1>2, <1>3

LEMMA FrontIs ==
  ASSUME NEW l, NEW k, NEW w, BothWays(l, k, w), NEW f \in Links!Id, ~l.node[f].live,
         NEW e \in Element
  PROVE  Before(Deque!LinkFront(l, f, e), l, k, w, f)
<1> DEFINE r == Deque!LinkFront(l, f, e)
<1>1. /\ l \in Links!List /\ Null \notin Links!Id /\ k \in Nat
      /\ \A i \in 1..k : w[i] \in Links!Id /\ l.node[w[i]].live
      /\ k > 0 => 1 \in 1..k /\ k \in 1..k
  BY WayIs DEF BothWays
<1>2. CASE k = 0
  <2>1. l.front = Null
    BY <1>2 DEF OneWay, BothWays
  <2>2. r = [l EXCEPT !.front = f, !.rear = f, !.size = @ + 1, !.node[f] = Links!New(e)]
    BY <2>1 DEF Deque!LinkFront, Deque!New, Links!New
  <2> HIDE DEF r
  <2> DEFINE g == [l.node EXCEPT ![f] = Links!New(e)]
  <2>3. g \in [Links!Id -> Cell] /\ g[f] = Links!New(e) /\ \A n \in Links!Id : n # f => g[n] = l.node[n]
    BY <1>1, ListIs, NewIs
  <2>4. r = [front |-> f, rear |-> f, size |-> l.size + 1, node |-> g]
    BY <1>1, <2>2 DEF Links!List
  <2> HIDE DEF g
  <2>5. /\ r \in Links!List /\ r.front = f /\ r.rear = f /\ r.size = l.size + 1 /\ r.node = g
    BY <1>1, <2>3, <2>4, ListIs
  <2>6. g[f].live /\ g[f].next = Null /\ g[f].prev = Null /\ g[f].content \in Element
    BY <2>3, NewIs
  <2>7. Before(r, l, k, w, f)
    BY <1>1, <1>2, <2>3, <2>5, <2>6 DEF Before
  <2> QED
    BY <2>7 DEF r
<1>3. CASE k > 0
  <2> DEFINE q == w[1]
  <2>1. l.front = q /\ q \in Links!Id /\ q # Null /\ q # f /\ l.node[q].prev = Null
    BY <1>1, <1>3 DEF OneWay, BothWays
  <2>2. Deque!End(l, q, "prev") = q
    <3>1. "prev" \in {"next", "prev"} /\ l.node[q]["prev"] = Null
      BY <2>1
    <3> HIDE DEF q
    <3> QED
      BY <1>1, <2>1, <3>1, EndIs, DequeWalk DEF Deque!End
  <2>3. r = [l EXCEPT !.front = f, !.size = @ + 1,
                      !.node = [@ EXCEPT ![q].prev = f, ![f] = [Links!New(e) EXCEPT !.next = q]]]
    BY <2>1, <2>2 DEF Deque!LinkFront, Deque!New, Links!New
  <2> HIDE DEF r, q
  <2> DEFINE c == [Links!New(e) EXCEPT !.next = q]
             b == [l.node[q] EXCEPT !.prev = f]
             g == [l.node EXCEPT ![q] = b, ![f] = c]
  <2>4. /\ b \in Cell /\ c \in Cell /\ c.live /\ c.prev = Null /\ c.next = q /\ c.content \in Element
        /\ b.live <=> l.node[q].live
        /\ b.content = l.node[q].content
        /\ b.next = l.node[q].next /\ b.prev = f
    <3>1. l.node[q] \in Cell /\ q \in Links!Id \cup {Null} /\ f \in Links!Id \cup {Null}
      BY <1>1, <2>1, ListIs
    <3> HIDE DEF q
    <3>2. c \in Cell /\ c.live /\ c.prev = Null /\ c.next = q /\ c.content \in Element
      BY <3>1, NewIs
    <3> HIDE DEF c
    <3>3. /\ b \in Cell /\ (b.live <=> l.node[q].live) /\ b.content = l.node[q].content
          /\ b.next = l.node[q].next /\ b.prev = f
      BY <3>1 DEF Cell
    <3> QED
      BY <3>2, <3>3
  <2>5. r = [l EXCEPT !.front = f, !.size = @ + 1, !.node = g]
    BY <1>1, <2>1, <2>3, ListIs
  <2> HIDE DEF b, c
  <2>6. /\ g \in [Links!Id -> Cell] /\ g[f] = c /\ g[q] = b
        /\ \A n \in Links!Id : n # f /\ n # q => g[n] = l.node[n]
    BY <1>1, <2>1, <2>4, ListIs
  <2> HIDE DEF g
  <2>7. r = [front |-> f, rear |-> l.rear, size |-> l.size + 1, node |-> g]
    BY <1>1, <2>5 DEF Links!List
  <2>8. /\ r \in Links!List /\ r.front = f /\ r.rear = l.rear /\ r.size = l.size + 1 /\ r.node = g
    <3>1. l.rear \in Links!Id \cup {Null} /\ f \in Links!Id \cup {Null} /\ l.size + 1 \in Nat
      BY <1>1, ListIs
    <3> QED
      BY <2>6, <2>7, <3>1, ListIs
  <2>9. Before(r, l, k, w, f)
    BY <1>1, <1>3, <2>1, <2>4, <2>6, <2>8 DEF Before, q
  <2> QED
    BY <2>9 DEF r
<1> QED
  BY <1>1, <1>2, <1>3


(* The way with a node more behind it, before it, and without its first.   *)
Then(k, w, f)  == [i \in 1..k + 1 |-> IF i <= k THEN w[i] ELSE f]
First(k, w, f) == [i \in 1..k + 1 |-> IF i = 1 THEN f ELSE w[i - 1]]
Rest(k, w)     == [i \in 1..k - 1 |-> w[i + 1]]
Most(k, w)     == [i \in 1..k - 1 |-> w[i]]

LEMMA ThenIs ==
  ASSUME NEW l, NEW k, NEW w, OneWay(l, k, w), NEW f \in Links!Id, ~l.node[f].live
  PROVE  /\ k + 1 \in Nat /\ Then(k, w, f) \in [1..k + 1 -> Links!Id]
         /\ \A i \in 1..k : Then(k, w, f)[i] = w[i] /\ w[i] # f
         /\ Then(k, w, f)[k + 1] = f
         /\ \A i, j \in 1..k + 1 : Then(k, w, f)[i] = Then(k, w, f)[j] => i = j
         /\ \A n \in Links!Id : n # f => ((\E i \in 1..k + 1 : Then(k, w, f)[i] = n) <=> l.node[n].live)
<1> DEFINE v == Then(k, w, f)
<1>1. /\ k \in Nat /\ \A i \in 1..k : w[i] \in Links!Id /\ l.node[w[i]].live
      /\ \A i, j \in 1..k : w[i] = w[j] => i = j
      /\ \A n \in Links!Id : l.node[n].live <=> \E i \in 1..k : w[i] = n
  BY WayIs DEF OneWay
<1>2. v \in [1..k + 1 -> Links!Id] /\ v[k + 1] = f /\ \A i \in 1..k : v[i] = w[i]
  BY <1>1 DEF Then
<1> HIDE DEF v
<1>3. \A i \in 1..k : w[i] # f
  BY <1>1
<1>4. \A i \in 1..k + 1 : i \in 1..k \/ i = k + 1
  BY <1>1
<1>5. \A i \in 1..k : i \in 1..k + 1
  BY <1>1
<1>6. \A i, j \in 1..k + 1 : v[i] = v[j] => i = j
  BY <1>1, <1>2, <1>3, <1>4
<1>7. ASSUME NEW n \in Links!Id, n # f
      PROVE  (\E i \in 1..k + 1 : v[i] = n) <=> l.node[n].live
  BY <1>1, <1>2, <1>4, <1>5, <1>7
<1> QED
  BY <1>1, <1>2, <1>3, <1>6, <1>7 DEF v

LEMMA FirstIs ==
  ASSUME NEW l, NEW k, NEW w, OneWay(l, k, w), NEW f \in Links!Id, ~l.node[f].live
  PROVE  /\ k + 1 \in Nat /\ First(k, w, f) \in [1..k + 1 -> Links!Id]
         /\ \A i \in 1..k : First(k, w, f)[i + 1] = w[i] /\ w[i] # f
         /\ First(k, w, f)[1] = f
         /\ \A i, j \in 1..k + 1 : First(k, w, f)[i] = First(k, w, f)[j] => i = j
         /\ \A n \in Links!Id : n # f => ((\E i \in 1..k + 1 : First(k, w, f)[i] = n) <=> l.node[n].live)
<1> DEFINE v == First(k, w, f)
<1>1. /\ k \in Nat /\ \A i \in 1..k : w[i] \in Links!Id /\ l.node[w[i]].live
      /\ \A i, j \in 1..k : w[i] = w[j] => i = j
      /\ \A n \in Links!Id : l.node[n].live <=> \E i \in 1..k : w[i] = n
  BY WayIs DEF OneWay
<1>2. \A i \in 1..k + 1 : i = 1 \/ i - 1 \in 1..k
  BY <1>1
<1>3. v \in [1..k + 1 -> Links!Id] /\ v[1] = f /\ \A i \in 1..k : v[i + 1] = w[i] /\ i + 1 \in 1..k + 1
  BY <1>1, <1>2 DEF First
<1> HIDE DEF v
<1>4. \A i \in 1..k : w[i] # f
  BY <1>1
<1>5. \A i \in 1..k + 1 : i = 1 \/ \E j \in 1..k : i = j + 1
  <2> SUFFICES ASSUME NEW i \in 1..k + 1, i # 1 PROVE \E j \in 1..k : i = j + 1
    OBVIOUS
  <2>1. i - 1 \in 1..k /\ i = (i - 1) + 1
    BY <1>1
  <2> QED
    BY <2>1
<1>6. ASSUME NEW i \in 1..k + 1, NEW j \in 1..k + 1, v[i] = v[j] PROVE i = j
  <2>1. CASE i = 1 /\ j = 1
    BY <2>1
  <2>2. CASE i = 1 /\ j # 1
    <3>1. PICK m \in 1..k : j = m + 1
      BY <1>5, <2>2
    <3> QED
      BY <1>3, <1>4, <1>6, <2>2, <3>1
  <2>3. CASE i # 1 /\ j = 1
    <3>1. PICK m \in 1..k : i = m + 1
      BY <1>5, <2>3
    <3> QED
      BY <1>3, <1>4, <1>6, <2>3, <3>1
  <2>4. CASE i # 1 /\ j # 1
    <3>1. PICK m \in 1..k : i = m + 1
      BY <1>5, <2>4
    <3>2. PICK o \in 1..k : j = o + 1
      BY <1>5, <2>4
    <3>3. w[m] = w[o]
      BY <1>3, <1>6, <3>1, <3>2
    <3> QED
      BY <1>1, <3>1, <3>2, <3>3
  <2> QED
    BY <2>1, <2>2, <2>3, <2>4
<1>7. ASSUME NEW n \in Links!Id, n # f
      PROVE  (\E i \in 1..k + 1 : v[i] = n) <=> l.node[n].live
  <2>1. ASSUME NEW i \in 1..k + 1, v[i] = n PROVE l.node[n].live
    <3>1. PICK j \in 1..k : i = j + 1
      BY <1>3, <1>5, <1>7, <2>1
    <3>2. w[j] = n
      BY <1>3, <2>1, <3>1
    <3> QED
      BY <1>1, <3>2
  <2>2. ASSUME l.node[n].live PROVE \E i \in 1..k + 1 : v[i] = n
    BY <1>1, <1>3, <2>2
  <2> QED
    BY <2>1, <2>2
<1> QED
  BY <1>1, <1>3, <1>4, <1>6, <1>7 DEF v

LEMMA BehindKeeps ==
  ASSUME NEW l, NEW k, NEW w, OneWay(l, k, w), NEW f \in Links!Id, ~l.node[f].live,
         NEW r, Behind(r, l, k, w, f)
  PROVE  /\ OneWay(r, k + 1, Then(k, w, f))
         /\ BothWays(l, k, w) => BothWays(r, k + 1, Then(k, w, f))
<1> DEFINE v == Then(k, w, f)
<1>1. /\ k \in Nat /\ \A i \in 1..k : w[i] \in Links!Id /\ l.node[w[i]].live
      /\ \A i, j \in 1..k : w[i] = w[j] => i = j
      /\ \A i \in 1..k - 1 : l.node[w[i]].next = w[i + 1]
      /\ k > 0 => l.front = w[1] /\ l.rear = w[k] /\ l.node[w[k]].next = Null
  BY WayIs DEF OneWay
<1>2. /\ k + 1 \in Nat /\ v \in [1..k + 1 -> Links!Id]
      /\ \A i \in 1..k : v[i] = w[i] /\ w[i] # f
      /\ v[k + 1] = f
      /\ \A i, j \in 1..k + 1 : v[i] = v[j] => i = j
      /\ \A n \in Links!Id : n # f => ((\E i \in 1..k + 1 : v[i] = n) <=> l.node[n].live)
  BY ThenIs
<1> HIDE DEF v
<1>3. \A n \in Links!Id : r.node[n].live <=> \E i \in 1..k + 1 : v[i] = n
  <2>1. k + 1 \in 1..k + 1
    BY <1>1
  <2> QED
    BY <1>2, <2>1 DEF Behind
<1>4. ASSUME NEW i \in 1..(k + 1) - 1
      PROVE  r.node[v[i]].next = v[i + 1]
  <2>1. i \in 1..k /\ w[i] \in Links!Id /\ w[i] # f /\ v[i] = w[i]
    BY <1>1, <1>2
  <2>2. CASE i = k
    BY <1>1, <1>2, <2>1, <2>2 DEF Behind
  <2>3. CASE i # k
    <3>1. i \in 1..k - 1 /\ i + 1 \in 1..k /\ k \in 1..k
      BY <1>1, <2>1, <2>3
    <3>2. w[i] # w[k]
      BY <1>1, <2>1, <2>3, <3>1
    <3>3. r.node[w[i]].next = l.node[w[i]].next
      BY <2>1, <3>2 DEF Behind
    <3> QED
      BY <1>1, <1>2, <2>1, <3>1, <3>3
  <2> QED
    BY <2>2, <2>3
<1>5. r.front = v[1] /\ r.rear = v[k + 1] /\ r.node[v[k + 1]].next = Null /\ r \in Links!List
  <2>1. k = 0 \/ 1 \in 1..k
    BY <1>1
  <2> QED
    BY <1>1, <1>2, <2>1 DEF Behind
<1>6. OneWay(r, k + 1, v)
  <2>1. k + 1 # 0
    BY <1>1
  <2> QED
    BY <1>2, <1>3, <1>4, <1>5, <2>1 DEF OneWay
<1>7. ASSUME BothWays(l, k, w) PROVE BothWays(r, k + 1, v)
  <2>1. /\ l.size = k
        /\ \A i \in 1..k - 1 : l.node[w[i + 1]].prev = w[i]
        /\ k > 0 => l.node[w[1]].prev = Null
    BY <1>7 DEF BothWays
  <2>2. ASSUME NEW i \in 1..(k + 1) - 1 PROVE r.node[v[i + 1]].prev = v[i]
    <3>1. i \in 1..k /\ v[i] = w[i]
      BY <1>1, <1>2
    <3>2. CASE i = k
      BY <1>1, <1>2, <3>1, <3>2 DEF Behind
    <3>3. CASE i # k
      <4>1. i \in 1..k - 1 /\ i + 1 \in 1..k
        BY <1>1, <3>1, <3>3
      <4>2. v[i + 1] = w[i + 1] /\ w[i + 1] # f /\ w[i + 1] \in Links!Id
        BY <1>1, <1>2, <4>1
      <4> QED
        BY <2>1, <3>1, <4>1, <4>2 DEF Behind
    <3> QED
      BY <3>2, <3>3
  <2>3. r.node[v[1]].prev = Null
    <3>1. CASE k = 0
      BY <1>2, <3>1 DEF Behind
    <3>2. CASE k # 0
      <4>1. 1 \in 1..k /\ k > 0
        BY <1>1, <3>2
      <4>2. v[1] = w[1] /\ w[1] # f /\ w[1] \in Links!Id
        BY <1>1, <1>2, <4>1
      <4> QED
        BY <2>1, <4>1, <4>2 DEF Behind
    <3> QED
      BY <3>1, <3>2
  <2>4. r.size = k + 1
    BY <2>1 DEF Behind
  <2> QED
    BY <1>6, <2>2, <2>3, <2>4 DEF BothWays
<1> QED
  BY <1>6, <1>7 DEF v

LEMMA BeforeKeeps ==
  ASSUME NEW l, NEW k, NEW w, BothWays(l, k, w), NEW f \in Links!Id, ~l.node[f].live,
         NEW r, Before(r, l, k, w, f)
  PROVE  BothWays(r, k + 1, First(k, w, f))
<1> DEFINE v == First(k, w, f)
<1>1. /\ k \in Nat /\ \A i \in 1..k : w[i] \in Links!Id /\ l.node[w[i]].live
      /\ \A i, j \in 1..k : w[i] = w[j] => i = j
      /\ \A i \in 1..k - 1 : l.node[w[i]].next = w[i + 1]
      /\ \A i \in 1..k - 1 : l.node[w[i + 1]].prev = w[i]
      /\ k > 0 => /\ l.front = w[1] /\ l.rear = w[k] /\ l.node[w[k]].next = Null
                  /\ l.node[w[1]].prev = Null
      /\ l.size = k
  BY WayIs DEF OneWay, BothWays
<1>2. /\ k + 1 \in Nat /\ v \in [1..k + 1 -> Links!Id]
      /\ \A i \in 1..k : v[i + 1] = w[i] /\ w[i] # f
      /\ v[1] = f
      /\ \A i, j \in 1..k + 1 : v[i] = v[j] => i = j
      /\ \A n \in Links!Id : n # f => ((\E i \in 1..k + 1 : v[i] = n) <=> l.node[n].live)
  BY FirstIs DEF BothWays
<1> HIDE DEF v
<1>3. \A n \in Links!Id : r.node[n].live <=> \E i \in 1..k + 1 : v[i] = n
  <2>1. 1 \in 1..k + 1
    BY <1>1
  <2> QED
    BY <1>2, <2>1 DEF Before
<1>4. ASSUME NEW i \in 1..(k + 1) - 1
      PROVE  r.node[v[i]].next = v[i + 1] /\ r.node[v[i + 1]].prev = v[i]
  <2>1. i \in 1..k /\ w[i] \in Links!Id /\ w[i] # f /\ v[i + 1] = w[i]
    BY <1>1, <1>2
  <2>2. CASE i = 1
    <3>1. k > 0
      BY <1>1, <2>1
    <3> QED
      BY <1>1, <1>2, <2>1, <2>2, <3>1 DEF Before
  <2>3. CASE i # 1
    <3>1. i - 1 \in 1..k /\ i - 1 \in 1..k - 1 /\ (i - 1) + 1 = i /\ 1 \in 1..k
      BY <1>1, <2>1, <2>3
    <3>2. v[i] = w[i - 1] /\ w[i - 1] # f /\ w[i - 1] \in Links!Id
      BY <1>1, <1>2, <3>1
    <3>3. w[i] # w[1]
      BY <1>1, <2>1, <2>3, <3>1
    <3>4. r.node[w[i]].prev = l.node[w[i]].prev /\ r.node[w[i - 1]].next = l.node[w[i - 1]].next
      BY <2>1, <3>2, <3>3 DEF Before
    <3>5. l.node[w[i - 1]].next = w[i] /\ l.node[w[i]].prev = w[i - 1]
      BY <1>1, <3>1
    <3> QED
      BY <2>1, <3>2, <3>4, <3>5
  <2> QED
    BY <2>2, <2>3
<1>5. /\ r.front = v[1] /\ r.rear = v[k + 1] /\ r.node[v[k + 1]].next = Null
      /\ r.node[v[1]].prev = Null /\ r \in Links!List /\ r.size = k + 1
  <2>1. CASE k = 0
    BY <1>1, <1>2, <2>1 DEF Before
  <2>2. CASE k # 0
    <3>1. k \in 1..k /\ k > 0
      BY <1>1, <2>2
    <3>2. v[k + 1] = w[k] /\ w[k] # f /\ w[k] \in Links!Id
      BY <1>1, <1>2, <3>1
    <3> QED
      BY <1>1, <1>2, <2>2, <3>1, <3>2 DEF Before
  <2> QED
    BY <2>1, <2>2
<1>6. k + 1 # 0
  BY <1>1
<1>7. OneWay(r, k + 1, v)
  BY <1>2, <1>3, <1>4, <1>5, <1>6 DEF OneWay
<1>8. BothWays(r, k + 1, v)
  BY <1>4, <1>5, <1>7 DEF BothWays
<1> QED
  BY <1>8 DEF v


LEMMA RestIs ==
  ASSUME NEW l, NEW k, NEW w, OneWay(l, k, w), k > 0
  PROVE  /\ k - 1 \in Nat /\ Rest(k, w) \in [1..k - 1 -> Links!Id]
         /\ \A i \in 1..k - 1 : Rest(k, w)[i] = w[i + 1] /\ i + 1 \in 1..k /\ w[i + 1] # w[1]
         /\ \A i, j \in 1..k - 1 : Rest(k, w)[i] = Rest(k, w)[j] => i = j
         /\ ~\E i \in 1..k - 1 : Rest(k, w)[i] = w[1]
         /\ \A n \in Links!Id : n # w[1] => ((\E i \in 1..k - 1 : Rest(k, w)[i] = n) <=> l.node[n].live)
<1> DEFINE v == Rest(k, w)
<1>1. /\ k \in Nat /\ \A i \in 1..k : w[i] \in Links!Id /\ l.node[w[i]].live
      /\ \A i, j \in 1..k : w[i] = w[j] => i = j
      /\ \A n \in Links!Id : l.node[n].live <=> \E i \in 1..k : w[i] = n
      /\ 1 \in 1..k
  BY WayIs DEF OneWay
<1>2. \A i \in 1..k - 1 : i + 1 \in 1..k /\ i + 1 # 1
  BY <1>1
<1>3. v \in [1..k - 1 -> Links!Id] /\ \A i \in 1..k - 1 : v[i] = w[i + 1]
  BY <1>1, <1>2 DEF Rest
<1> HIDE DEF v
<1>4. \A i \in 1..k - 1 : w[i + 1] # w[1]
  BY <1>1, <1>2
<1>5. ASSUME NEW i \in 1..k - 1, NEW j \in 1..k - 1, v[i] = v[j] PROVE i = j
  <2>1. w[i + 1] = w[j + 1] /\ i + 1 \in 1..k /\ j + 1 \in 1..k
    BY <1>2, <1>3, <1>5
  <2>2. i + 1 = j + 1
    BY <1>1, <2>1
  <2> QED
    BY <2>2
<1>6. ASSUME NEW n \in Links!Id, n # w[1]
      PROVE  (\E i \in 1..k - 1 : v[i] = n) <=> l.node[n].live
  <2>1. ASSUME NEW i \in 1..k - 1, v[i] = n PROVE l.node[n].live
    BY <1>1, <1>2, <1>3, <2>1
  <2>2. ASSUME l.node[n].live PROVE \E i \in 1..k - 1 : v[i] = n
    <3>1. PICK j \in 1..k : w[j] = n
      BY <1>1, <2>2
    <3>2. j # 1
      BY <1>6, <3>1
    <3>3. j - 1 \in 1..k - 1 /\ (j - 1) + 1 = j
      BY <1>1, <3>2
    <3>4. v[j - 1] = n
      BY <1>3, <3>1, <3>3
    <3> QED
      BY <3>3, <3>4
  <2> QED
    BY <2>1, <2>2
<1>7. k - 1 \in Nat
  BY <1>1
<1>8. ~\E i \in 1..k - 1 : v[i] = w[1]
  BY <1>3, <1>4
<1> QED
  BY <1>1, <1>2, <1>3, <1>4, <1>5, <1>6, <1>7, <1>8 DEF v

LEMMA MostIs ==
  ASSUME NEW l, NEW k, NEW w, OneWay(l, k, w), k > 0
  PROVE  /\ k - 1 \in Nat /\ Most(k, w) \in [1..k - 1 -> Links!Id]
         /\ \A i \in 1..k - 1 : Most(k, w)[i] = w[i] /\ i \in 1..k /\ w[i] # w[k]
         /\ \A i, j \in 1..k - 1 : Most(k, w)[i] = Most(k, w)[j] => i = j
         /\ \A n \in Links!Id : n # w[k] => ((\E i \in 1..k - 1 : Most(k, w)[i] = n) <=> l.node[n].live)
         /\ ~\E i \in 1..k - 1 : Most(k, w)[i] = w[k]
<1> DEFINE v == Most(k, w)
<1>1. /\ k \in Nat /\ \A i \in 1..k : w[i] \in Links!Id /\ l.node[w[i]].live
      /\ \A i, j \in 1..k : w[i] = w[j] => i = j
      /\ \A n \in Links!Id : l.node[n].live <=> \E i \in 1..k : w[i] = n
      /\ k \in 1..k
  BY WayIs DEF OneWay
<1>2. \A i \in 1..k - 1 : i \in 1..k /\ i # k
  BY <1>1
<1>3. v \in [1..k - 1 -> Links!Id] /\ \A i \in 1..k - 1 : v[i] = w[i]
  BY <1>1, <1>2 DEF Most
<1> HIDE DEF v
<1>4. \A i \in 1..k - 1 : w[i] # w[k]
  BY <1>1, <1>2
<1>5. \A i, j \in 1..k - 1 : v[i] = v[j] => i = j
  BY <1>1, <1>2, <1>3
<1>6. \A i \in 1..k : i # k => i \in 1..k - 1
  BY <1>1
<1>7. ASSUME NEW n \in Links!Id, n # w[k]
      PROVE  (\E i \in 1..k - 1 : v[i] = n) <=> l.node[n].live
  BY <1>1, <1>2, <1>3, <1>6, <1>7
<1>8. k - 1 \in Nat
  BY <1>1
<1>9. ~\E i \in 1..k - 1 : v[i] = w[k]
  BY <1>3, <1>4
<1> QED
  BY <1>1, <1>2, <1>3, <1>4, <1>5, <1>7, <1>8, <1>9 DEF v

(* What it is to take a node out at the front ...                          *)
WithoutFront(r, l, k, w) ==
  /\ r \in Links!List
  /\ r.front = IF k = 1 THEN Null ELSE w[2]
  /\ r.rear = IF k = 1 THEN Null ELSE l.rear
  /\ ~r.node[w[1]].live
  /\ \A n \in Links!Id : n # w[1] =>
       /\ r.node[n].live <=> l.node[n].live
       /\ r.node[n].content = l.node[n].content
       /\ r.node[n].next = l.node[n].next

(* ... and at the rear.                                                    *)
WithoutRear(r, l, k, w) ==
  /\ r \in Links!List
  /\ r.front = IF k = 1 THEN Null ELSE l.front
  /\ r.rear = IF k = 1 THEN Null ELSE w[k - 1]
  /\ ~r.node[w[k]].live
  /\ \A n \in Links!Id : n # w[k] =>
       /\ r.node[n].live <=> l.node[n].live
       /\ r.node[n].content = l.node[n].content
       /\ r.node[n].next = IF k > 1 /\ n = w[k - 1] THEN Null ELSE l.node[n].next
       /\ r.node[n].prev = l.node[n].prev

LEMMA RestKeeps ==
  ASSUME NEW l, NEW k, NEW w, OneWay(l, k, w), k > 0, NEW r, WithoutFront(r, l, k, w)
  PROVE  OneWay(r, k - 1, Rest(k, w))
<1> DEFINE v == Rest(k, w)
<1>1. /\ k \in Nat /\ 1 \in 1..k /\ k \in 1..k
      /\ \A i \in 1..k : w[i] \in Links!Id
      /\ \A i \in 1..k - 1 : l.node[w[i]].next = w[i + 1]
      /\ l.front = w[1] /\ l.rear = w[k] /\ l.node[w[k]].next = Null
      /\ \A n \in Links!Id : l.node[n].live \in BOOLEAN
  BY WayIs DEF OneWay, Links!List
<1>2. /\ k - 1 \in Nat /\ v \in [1..k - 1 -> Links!Id]
      /\ \A i \in 1..k - 1 : v[i] = w[i + 1] /\ i + 1 \in 1..k /\ w[i + 1] # w[1]
      /\ \A i, j \in 1..k - 1 : v[i] = v[j] => i = j
      /\ ~\E i \in 1..k - 1 : v[i] = w[1]
      /\ \A n \in Links!Id : n # w[1] => ((\E i \in 1..k - 1 : v[i] = n) <=> l.node[n].live)
  BY RestIs
<1> HIDE DEF v
<1>3. \A n \in Links!Id : r.node[n].live <=> \E i \in 1..k - 1 : v[i] = n
  BY <1>2 DEF WithoutFront
<1>4. ASSUME NEW i \in 1..(k - 1) - 1 PROVE r.node[v[i]].next = v[i + 1]
  <2>1. i \in 1..k - 1 /\ i + 1 \in 1..k - 1 /\ i + 1 \in 1..k
    BY <1>1
  <2>2. v[i] = w[i + 1] /\ w[i + 1] # w[1] /\ w[i + 1] \in Links!Id /\ v[i + 1] = w[(i + 1) + 1]
    BY <1>1, <1>2, <2>1
  <2>3. r.node[w[i + 1]].next = l.node[w[i + 1]].next
    BY <2>2 DEF WithoutFront
  <2> QED
    BY <1>1, <2>1, <2>2, <2>3
<1>5. CASE k = 1
  <2>1. k - 1 = 0
    BY <1>5
  <2>2. r \in Links!List /\ r.front = Null /\ r.rear = Null
    BY <1>5 DEF WithoutFront
  <2> QED
    BY <1>2, <1>3, <1>4, <2>1, <2>2 DEF OneWay, v
<1>6. CASE k # 1
  <2>1. 1 \in 1..k - 1 /\ k - 1 \in 1..k - 1 /\ 1 + 1 = 2 /\ (k - 1) + 1 = k /\ k - 1 # 0
    BY <1>1, <1>6
  <2>2. v[1] = w[2] /\ v[k - 1] = w[k] /\ w[k] # w[1] /\ w[k] \in Links!Id
    BY <1>1, <1>2, <2>1
  <2>3. /\ r \in Links!List /\ r.front = v[1] /\ r.rear = v[k - 1]
        /\ r.node[v[k - 1]].next = Null
    BY <1>1, <1>6, <2>2 DEF WithoutFront
  <2> QED
    BY <1>2, <1>3, <1>4, <2>1, <2>3 DEF OneWay, v
<1> QED
  BY <1>5, <1>6

LEMMA RestKeepsBoth ==
  ASSUME NEW l, NEW k, NEW w, BothWays(l, k, w), k > 0, NEW r, WithoutFront(r, l, k, w),
         r.size = l.size - 1,
         \A n \in Links!Id : n # w[1] =>
           r.node[n].prev = IF k > 1 /\ n = w[2] THEN Null ELSE l.node[n].prev
  PROVE  BothWays(r, k - 1, Rest(k, w))
<1> DEFINE v == Rest(k, w)
<1>1. /\ k \in Nat /\ 1 \in 1..k /\ l.size = k
      /\ \A i \in 1..k : w[i] \in Links!Id
      /\ \A i, j \in 1..k : w[i] = w[j] => i = j
      /\ \A i \in 1..k - 1 : l.node[w[i + 1]].prev = w[i]
  BY WayIs DEF OneWay, BothWays
<1>2. \A i \in 1..k - 1 : v[i] = w[i + 1] /\ i + 1 \in 1..k /\ w[i + 1] # w[1]
  BY RestIs DEF BothWays
<1>3. OneWay(r, k - 1, v)
  BY RestKeeps DEF BothWays
<1> HIDE DEF v
<1>4. ASSUME NEW i \in 1..(k - 1) - 1 PROVE r.node[v[i + 1]].prev = v[i]
  <2>1. /\ i \in 1..k - 1 /\ i + 1 \in 1..k - 1 /\ i + 1 \in 1..k /\ (i + 1) + 1 \in 1..k
        /\ 2 \in 1..k /\ (i + 1) + 1 # 2
    BY <1>1
  <2>2. /\ v[i] = w[i + 1] /\ v[i + 1] = w[(i + 1) + 1] /\ w[(i + 1) + 1] # w[1]
        /\ w[(i + 1) + 1] \in Links!Id /\ w[(i + 1) + 1] # w[2]
    BY <1>1, <1>2, <2>1
  <2>3. l.node[w[(i + 1) + 1]].prev = w[i + 1]
    BY <1>1, <2>1
  <2> QED
    BY <2>2, <2>3
<1>5. k - 1 > 0 => r.node[v[1]].prev = Null
  <2> SUFFICES ASSUME k > 1 PROVE r.node[v[1]].prev = Null
    BY <1>1
  <2>1. 1 \in 1..k - 1 /\ 1 + 1 = 2
    BY <1>1
  <2>2. v[1] = w[2] /\ w[2] # w[1] /\ w[2] \in Links!Id
    BY <1>1, <1>2, <2>1
  <2> QED
    BY <2>2
<1> QED
  BY <1>1, <1>3, <1>4, <1>5 DEF BothWays, v

LEMMA MostKeeps ==
  ASSUME NEW l, NEW k, NEW w, BothWays(l, k, w), k > 0, NEW r, WithoutRear(r, l, k, w),
         r.size = l.size - 1
  PROVE  BothWays(r, k - 1, Most(k, w))
<1> DEFINE v == Most(k, w)
<1>1. /\ k \in Nat /\ 1 \in 1..k /\ k \in 1..k /\ l.size = k
      /\ \A i \in 1..k : w[i] \in Links!Id
      /\ \A i, j \in 1..k : w[i] = w[j] => i = j
      /\ \A i \in 1..k - 1 : l.node[w[i]].next = w[i + 1]
      /\ \A i \in 1..k - 1 : l.node[w[i + 1]].prev = w[i]
      /\ l.front = w[1] /\ l.rear = w[k] /\ l.node[w[1]].prev = Null
  BY WayIs DEF OneWay, BothWays
<1>2. /\ k - 1 \in Nat /\ v \in [1..k - 1 -> Links!Id]
      /\ \A i \in 1..k - 1 : v[i] = w[i] /\ i \in 1..k /\ w[i] # w[k]
      /\ \A i, j \in 1..k - 1 : v[i] = v[j] => i = j
      /\ \A n \in Links!Id : n # w[k] => ((\E i \in 1..k - 1 : v[i] = n) <=> l.node[n].live)
      /\ ~\E i \in 1..k - 1 : v[i] = w[k]
  BY MostIs DEF BothWays
<1> HIDE DEF v
<1>3. \A n \in Links!Id : r.node[n].live <=> \E i \in 1..k - 1 : v[i] = n
  BY <1>2 DEF WithoutRear
<1>4. ASSUME NEW i \in 1..(k - 1) - 1
      PROVE  r.node[v[i]].next = v[i + 1] /\ r.node[v[i + 1]].prev = v[i]
  <2>1. i \in 1..k - 1 /\ i + 1 \in 1..k - 1 /\ k - 1 \in 1..k /\ i # k - 1 /\ i \in 1..k
    BY <1>1
  <2>2. /\ v[i] = w[i] /\ v[i + 1] = w[i + 1] /\ w[i] # w[k] /\ w[i + 1] # w[k]
        /\ w[i] \in Links!Id /\ w[i + 1] \in Links!Id /\ w[i] # w[k - 1]
    BY <1>1, <1>2, <2>1
  <2>3. r.node[w[i]].next = l.node[w[i]].next /\ r.node[w[i + 1]].prev = l.node[w[i + 1]].prev
    BY <2>2 DEF WithoutRear
  <2>4. l.node[w[i]].next = w[i + 1] /\ l.node[w[i + 1]].prev = w[i]
    BY <1>1, <2>1
  <2> QED
    BY <2>2, <2>3, <2>4
<1>5. r \in Links!List /\ (k - 1 = 0 => r.front = Null /\ r.rear = Null)
  <2>1. k - 1 = 0 => k = 1
    BY <1>1
  <2> QED
    BY <2>1 DEF WithoutRear
<1>6. k - 1 > 0 => /\ r.front = v[1] /\ r.rear = v[k - 1]
                   /\ r.node[v[k - 1]].next = Null /\ r.node[v[1]].prev = Null
  <2> SUFFICES ASSUME k > 1
               PROVE  /\ r.front = v[1] /\ r.rear = v[k - 1]
                      /\ r.node[v[k - 1]].next = Null /\ r.node[v[1]].prev = Null
    BY <1>1
  <2>1. 1 \in 1..k - 1 /\ k - 1 \in 1..k - 1
    BY <1>1
  <2>2. /\ v[1] = w[1] /\ w[1] # w[k] /\ w[1] \in Links!Id
        /\ v[k - 1] = w[k - 1] /\ w[k - 1] # w[k] /\ w[k - 1] \in Links!Id
    BY <1>1, <1>2, <2>1
  <2> QED
    BY <1>1, <2>2 DEF WithoutRear
<1>7. OneWay(r, k - 1, v)
  BY <1>2, <1>3, <1>4, <1>5, <1>6 DEF OneWay
<1>8. r.size = k - 1
  BY <1>1
<1>9. BothWays(r, k - 1, v)
  BY <1>4, <1>6, <1>7, <1>8 DEF BothWays
<1> QED
  BY <1>9 DEF v


LEMMA EndsAre ==
  ASSUME NEW l, NEW k, NEW w, OneWay(l, k, w), k > 0
  PROVE  /\ k \in Nat /\ 1 \in 1..k /\ k \in 1..k /\ l \in Links!List /\ Null \notin Links!Id
         /\ l.front = w[1] /\ l.rear = w[k] /\ w[1] \in Links!Id /\ w[k] \in Links!Id
         /\ \A i, j \in 1..k : w[i] = w[j] => i = j
<1>1. /\ k \in Nat /\ 1 \in 1..k /\ k \in 1..k /\ l \in Links!List /\ Null \notin Links!Id
      /\ w[1] \in Links!Id /\ w[k] \in Links!Id
  BY WayIs
<1>2. /\ l.front = w[1] /\ l.rear = w[k]
      /\ \A i, j \in 1..k : w[i] = w[j] => i = j
  BY DEF OneWay
<1> QED
  BY <1>1, <1>2

LEMMA UnlinkIs ==
  ASSUME NEW l, NEW k, NEW w, OneWay(l, k, w), k > 0
  PROVE  WithoutFront(Fifo!Unlink(l), l, k, w)
<1> DEFINE r == Fifo!Unlink(l)
           f == w[1]
           g == [l.node EXCEPT ![f] = Links!Unallocated]
<1>1. /\ k \in Nat /\ 1 \in 1..k /\ k \in 1..k /\ l \in Links!List /\ Null \notin Links!Id
      /\ l.front = f /\ l.rear = w[k] /\ f \in Links!Id /\ w[k] \in Links!Id
      /\ \A i, j \in 1..k : w[i] = w[j] => i = j
      /\ k # 1 => l.node[f].next = w[2] /\ w[2] \in Links!Id
  <2>1. /\ k \in Nat /\ 1 \in 1..k /\ k \in 1..k /\ l \in Links!List /\ Null \notin Links!Id
        /\ l.front = f /\ l.rear = w[k] /\ f \in Links!Id /\ w[k] \in Links!Id
        /\ \A i, j \in 1..k : w[i] = w[j] => i = j
    BY EndsAre
  <2>2. ASSUME k # 1 PROVE l.node[f].next = w[2] /\ w[2] \in Links!Id
    <3>1. 1 \in 1..k - 1 /\ 1 + 1 = 2 /\ 2 \in 1..k
      BY <2>1, <2>2
    <3>2. l.node[w[1]].next = w[1 + 1]
      BY <3>1 DEF OneWay
    <3>3. w[2] \in Links!Id
      BY <3>1 DEF OneWay
    <3> QED
      BY <3>1, <3>2, <3>3
  <2> QED
    BY <2>1, <2>2
<1>2. f # w[k] <=> k # 1
  BY <1>1
<1>3. r = IF k # 1 THEN [l EXCEPT !.front = w[2], !.node = g]
                   ELSE [l EXCEPT !.front = Null, !.rear = Null, !.node = g]
  BY <1>1, <1>2 DEF Fifo!Unlink, Fifo!Unallocated, Links!Unallocated
<1> HIDE DEF r, f
<1>4. /\ g \in [Links!Id -> Cell] /\ ~g[f].live
      /\ \A n \in Links!Id : n # f => g[n] = l.node[n]
  BY <1>1, ListIs, UnallocatedIs
<1> HIDE DEF g
<1>5. CASE k = 1
  <2>1. r = [front |-> Null, rear |-> Null, size |-> l.size, node |-> g]
    BY <1>1, <1>3, <1>5 DEF Links!List
  <2>2. r \in Links!List /\ r.front = Null /\ r.rear = Null /\ r.node = g
    BY <1>1, <1>4, <2>1, ListIs
  <2> QED
    BY <1>4, <1>5, <2>2 DEF WithoutFront, r, f
<1>6. CASE k # 1
  <2>1. r = [front |-> w[2], rear |-> l.rear, size |-> l.size, node |-> g]
    BY <1>1, <1>3, <1>6 DEF Links!List
  <2>2. r \in Links!List /\ r.front = w[2] /\ r.rear = l.rear /\ r.node = g
    BY <1>1, <1>4, <1>6, <2>1, ListIs
  <2> QED
    BY <1>4, <1>6, <2>2 DEF WithoutFront, r, f
<1> QED
  BY <1>5, <1>6

LEMMA UnlinkFrontIs ==
  ASSUME NEW l, NEW k, NEW w, BothWays(l, k, w), k > 0
  PROVE  /\ WithoutFront(Deque!UnlinkFront(l), l, k, w)
         /\ Deque!UnlinkFront(l).size = l.size - 1
         /\ \A n \in Links!Id : n # w[1] =>
              Deque!UnlinkFront(l).node[n].prev = IF k > 1 /\ n = w[2] THEN Null ELSE l.node[n].prev
<1> DEFINE r == Deque!UnlinkFront(l)
           f == w[1]
<1>1. /\ k \in Nat /\ 1 \in 1..k /\ k \in 1..k /\ l \in Links!List /\ Null \notin Links!Id
      /\ l.front = f /\ l.rear = w[k] /\ f \in Links!Id /\ w[k] \in Links!Id
      /\ \A i, j \in 1..k : w[i] = w[j] => i = j
      /\ l.size = k
  BY EndsAre DEF BothWays
<1>2. f # w[k] <=> k # 1
  BY <1>1
<1>3. l.size - 1 \in Nat
  BY <1>1
<1>4. CASE k = 1
  <2> DEFINE g == [l.node EXCEPT ![f] = Links!Unallocated]
  <2>1. r = [l EXCEPT !.front = Null, !.rear = Null, !.size = @ - 1, !.node = g]
    BY <1>1, <1>2, <1>4 DEF Deque!UnlinkFront, Deque!Unallocated, Links!Unallocated
  <2> HIDE DEF r, f
  <2>2. /\ g \in [Links!Id -> Cell] /\ ~g[f].live
        /\ \A n \in Links!Id : n # f => g[n] = l.node[n]
    BY <1>1, ListIs, UnallocatedIs
  <2> HIDE DEF g
  <2>3. r = [front |-> Null, rear |-> Null, size |-> l.size - 1, node |-> g]
    BY <1>1, <2>1 DEF Links!List
  <2>4. r \in Links!List /\ r.front = Null /\ r.rear = Null /\ r.node = g /\ r.size = l.size - 1
    BY <1>1, <1>3, <2>2, <2>3, ListIs
  <2> QED
    BY <1>4, <2>2, <2>4 DEF WithoutFront, r, f
<1>5. CASE k # 1
  <2> DEFINE q == w[2]
             c == [l.node[q] EXCEPT !.prev = Null]
             g == [l.node EXCEPT ![q] = c, ![f] = Links!Unallocated]
  <2>1. l.node[f].next = q /\ q \in Links!Id /\ q # f
    <3>1. 1 \in 1..k - 1 /\ 1 + 1 = 2 /\ 2 \in 1..k /\ 2 # 1
      BY <1>1, <1>5
    <3>2. l.node[w[1]].next = w[1 + 1]
      BY <3>1 DEF OneWay, BothWays
    <3>3. q \in Links!Id
      BY <3>1 DEF OneWay, BothWays
    <3> QED
      BY <1>1, <3>1, <3>2, <3>3
  <2> HIDE DEF q, f
  <2>2. r = [l EXCEPT !.front = q, !.size = @ - 1,
                      !.node = [@ EXCEPT ![q].prev = Null, ![f] = Links!Unallocated]]
    <3>1. l.front = f /\ l.front # l.rear /\ l.node[f].next = q
      BY <1>1, <1>2, <1>5, <2>1
    <3> QED
      BY <3>1 DEF Deque!UnlinkFront, Deque!Unallocated, Links!Unallocated
  <2> HIDE DEF r
  <2>3. r = [l EXCEPT !.front = q, !.size = @ - 1, !.node = g]
    BY <1>1, <2>1, <2>2, ListIs
  <2>4. /\ c \in Cell /\ (c.live <=> l.node[q].live) /\ c.content = l.node[q].content
        /\ c.next = l.node[q].next /\ c.prev = Null
    <3>1. l.node[q] \in Cell
      BY <1>1, <2>1, ListIs
    <3> QED
      BY <3>1 DEF Cell
  <2> HIDE DEF c
  <2>5. /\ g \in [Links!Id -> Cell] /\ ~g[f].live /\ g[q] = c
        /\ \A n \in Links!Id : n # f /\ n # q => g[n] = l.node[n]
    BY <1>1, <2>1, <2>4, ListIs, UnallocatedIs
  <2> HIDE DEF g
  <2>6. r = [front |-> q, rear |-> l.rear, size |-> l.size - 1, node |-> g]
    BY <1>1, <2>3 DEF Links!List
  <2>7. r \in Links!List /\ r.front = q /\ r.rear = l.rear /\ r.node = g /\ r.size = l.size - 1
    BY <1>1, <1>3, <2>1, <2>5, <2>6, ListIs
  <2>8. \A n \in Links!Id : n # f =>
          /\ r.node[n].live <=> l.node[n].live
          /\ r.node[n].content = l.node[n].content
          /\ r.node[n].next = l.node[n].next
          /\ r.node[n].prev = IF k > 1 /\ n = q THEN Null ELSE l.node[n].prev
    <3>1. k > 1
      BY <1>1, <1>5
    <3> QED
      BY <2>4, <2>5, <2>7, <3>1
  <2> QED
    BY <1>5, <2>5, <2>7, <2>8 DEF WithoutFront, r, f, q
<1> QED
  BY <1>4, <1>5

LEMMA UnlinkRearIs ==
  ASSUME NEW l, NEW k, NEW w, BothWays(l, k, w), k > 0
  PROVE  WithoutRear(Deque!UnlinkRear(l), l, k, w) /\ Deque!UnlinkRear(l).size = l.size - 1
<1> DEFINE r == Deque!UnlinkRear(l)
           f == w[k]
<1>1. /\ k \in Nat /\ 1 \in 1..k /\ k \in 1..k /\ l \in Links!List /\ Null \notin Links!Id
      /\ l.front = w[1] /\ l.rear = f /\ f \in Links!Id /\ w[1] \in Links!Id
      /\ \A i, j \in 1..k : w[i] = w[j] => i = j
      /\ l.size = k
  BY EndsAre DEF BothWays
<1>2. f # w[1] <=> k # 1
  BY <1>1
<1>3. l.size - 1 \in Nat
  BY <1>1
<1>4. CASE k = 1
  <2> DEFINE g == [l.node EXCEPT ![f] = Links!Unallocated]
  <2>1. r = [l EXCEPT !.front = Null, !.rear = Null, !.size = @ - 1, !.node = g]
    BY <1>1, <1>2, <1>4 DEF Deque!UnlinkRear, Deque!Unallocated, Links!Unallocated
  <2> HIDE DEF r, f
  <2>2. /\ g \in [Links!Id -> Cell] /\ ~g[f].live
        /\ \A n \in Links!Id : n # f => g[n] = l.node[n]
    BY <1>1, ListIs, UnallocatedIs
  <2> HIDE DEF g
  <2>3. r = [front |-> Null, rear |-> Null, size |-> l.size - 1, node |-> g]
    BY <1>1, <2>1 DEF Links!List
  <2>4. r \in Links!List /\ r.front = Null /\ r.rear = Null /\ r.node = g /\ r.size = l.size - 1
    BY <1>1, <1>3, <2>2, <2>3, ListIs
  <2> QED
    BY <1>4, <2>2, <2>4 DEF WithoutRear, r, f
<1>5. CASE k # 1
  <2> DEFINE q == w[k - 1]
             c == [l.node[q] EXCEPT !.next = Null]
             g == [l.node EXCEPT ![q] = c, ![f] = Links!Unallocated]
  <2>1. l.node[f].prev = q /\ q \in Links!Id /\ q # f
    <3>1. k - 1 \in 1..k - 1 /\ (k - 1) + 1 = k /\ k - 1 \in 1..k
      BY <1>1, <1>5
    <3>2. l.node[w[(k - 1) + 1]].prev = w[k - 1]
      BY <3>1 DEF BothWays
    <3>3. k - 1 # k /\ q \in Links!Id
      BY <1>1, <3>1 DEF OneWay, BothWays
    <3> QED
      BY <1>1, <3>1, <3>2, <3>3
  <2> HIDE DEF q, f
  <2>2. r = [l EXCEPT !.rear = q, !.size = @ - 1,
                      !.node = [@ EXCEPT ![q].next = Null, ![f] = Links!Unallocated]]
    <3>1. l.rear = f /\ l.front # l.rear /\ l.node[f].prev = q
      BY <1>1, <1>2, <1>5, <2>1
    <3> QED
      BY <3>1 DEF Deque!UnlinkRear, Deque!Unallocated, Links!Unallocated
  <2> HIDE DEF r
  <2>3. r = [l EXCEPT !.rear = q, !.size = @ - 1, !.node = g]
    BY <1>1, <2>1, <2>2, ListIs
  <2>4. /\ c \in Cell /\ (c.live <=> l.node[q].live) /\ c.content = l.node[q].content
        /\ c.prev = l.node[q].prev /\ c.next = Null
    <3>1. l.node[q] \in Cell
      BY <1>1, <2>1, ListIs
    <3> QED
      BY <3>1 DEF Cell
  <2> HIDE DEF c
  <2>5. /\ g \in [Links!Id -> Cell] /\ ~g[f].live /\ g[q] = c
        /\ \A n \in Links!Id : n # f /\ n # q => g[n] = l.node[n]
    BY <1>1, <2>1, <2>4, ListIs, UnallocatedIs
  <2> HIDE DEF g
  <2>6. r = [front |-> l.front, rear |-> q, size |-> l.size - 1, node |-> g]
    BY <1>1, <2>3 DEF Links!List
  <2>7. r \in Links!List /\ r.front = l.front /\ r.rear = q /\ r.node = g /\ r.size = l.size - 1
    BY <1>1, <1>3, <2>1, <2>5, <2>6, ListIs
  <2>8. \A n \in Links!Id : n # f =>
          /\ r.node[n].live <=> l.node[n].live
          /\ r.node[n].content = l.node[n].content
          /\ r.node[n].next = IF k > 1 /\ n = q THEN Null ELSE l.node[n].next
          /\ r.node[n].prev = l.node[n].prev
    <3>1. k > 1
      BY <1>1, <1>5
    <3> QED
      BY <2>4, <2>5, <2>7, <3>1
  <2> QED
    BY <1>5, <2>5, <2>7, <2>8 DEF WithoutRear, r, f, q
<1> QED
  BY <1>4, <1>5

LEMMA OneSame ==
  ASSUME NEW l, NEW k, NEW w, OneWay(l, k, w), NEW r \in Links!List,
         r.front = l.front, r.rear = l.rear, r.size = l.size,
         \A n \in Links!Id : /\ r.node[n].live <=> l.node[n].live
                             /\ r.node[n].next = l.node[n].next /\ r.node[n].prev = l.node[n].prev
  PROVE  OneWay(r, k, w) /\ (BothWays(l, k, w) => BothWays(r, k, w))
<1>1. k \in Nat /\ \A i \in 1..k : w[i] \in Links!Id
  BY WayIs
<1>2. \A i \in 1..k - 1 : i \in 1..k /\ i + 1 \in 1..k
  BY <1>1
<1>3. k > 0 => 1 \in 1..k /\ k \in 1..k
  BY <1>1
<1>4. OneWay(r, k, w)
  BY <1>1, <1>2, <1>3 DEF OneWay
<1>5. ASSUME BothWays(l, k, w) PROVE BothWays(r, k, w)
  BY <1>1, <1>2, <1>3, <1>4, <1>5 DEF BothWays
<1> QED
  BY <1>4, <1>5

(* The two modules have their own copies of LinkedList.                    *)
LEMMA FifoIs ==
  /\ Fifo!Empty = Links!Empty /\ Fifo!Id = Links!Id /\ Fifo!List = Links!List
  /\ \A l : Fifo!Spare(l) = Links!Spare(l) /\ Fifo!Fresh(l) = Links!Fresh(l)
  /\ \A l, f, e : Fifo!LinkRear(l, f, e) = Links!LinkRear(l, f, e)
<1>1. Fifo!Empty = Links!Empty /\ Fifo!Id = Links!Id /\ Fifo!List = Links!List
  BY DEF Fifo!Empty, Links!Empty, Fifo!Id, Links!Id, Fifo!List, Links!List,
         Fifo!Unallocated, Links!Unallocated
<1>2. \A l : Fifo!Spare(l) = Links!Spare(l) /\ Fifo!Fresh(l) = Links!Fresh(l)
  BY DEF Fifo!Spare, Links!Spare, Fifo!Id, Links!Id, Fifo!Fresh, Links!Fresh
<1>3. \A l, f, e : Fifo!LinkRear(l, f, e) = Links!LinkRear(l, f, e)
  <2> TAKE l, f, e
  <2>1. Fifo!End(l, l.rear, "next") = Links!End(l, l.rear, "next")
    BY FifoWalk DEF Fifo!End, Links!End
  <2>2. Fifo!New(e) = Links!New(e)
    BY DEF Fifo!New, Links!New
  <2> QED
    BY ONLY <2>1, <2>2 DEF Fifo!LinkRear, Links!LinkRear
<1> QED
  BY <1>1, <1>2, <1>3

LEMMA DequeIs ==
  /\ Deque!Empty = Links!Empty /\ Deque!Id = Links!Id /\ Deque!List = Links!List
  /\ \A l : Deque!Spare(l) = Links!Spare(l) /\ Deque!Fresh(l) = Links!Fresh(l)
  /\ \A l, f, e : Deque!LinkRear(l, f, e) = Links!LinkRear(l, f, e)
<1>1. Deque!Empty = Links!Empty /\ Deque!Id = Links!Id /\ Deque!List = Links!List
  BY DEF Deque!Empty, Links!Empty, Deque!Id, Links!Id, Deque!List, Links!List,
         Deque!Unallocated, Links!Unallocated
<1>2. \A l : Deque!Spare(l) = Links!Spare(l) /\ Deque!Fresh(l) = Links!Fresh(l)
  BY DEF Deque!Spare, Links!Spare, Deque!Id, Links!Id, Deque!Fresh, Links!Fresh
<1>3. \A l, f, e : Deque!LinkRear(l, f, e) = Links!LinkRear(l, f, e)
  <2> TAKE l, f, e
  <2>1. Deque!End(l, l.rear, "next") = Links!End(l, l.rear, "next")
    BY DequeWalk DEF Deque!End, Links!End
  <2>2. Deque!New(e) = Links!New(e)
    BY DEF Deque!New, Links!New
  <2> QED
    BY ONLY <2>1, <2>2 DEF Deque!LinkRear, Links!LinkRear
<1> QED
  BY <1>1, <1>2, <1>3

(* The nodes in use hold elements.                                         *)
Filled(l) == \A n \in Links!Id : l.node[n].live => l.node[n].content \in Element

QueueInv == \E k, w : OneWay(obj, k, w)
DequeInv == aux \in BOOLEAN /\ Filled(obj) /\ \E k, w : BothWays(obj, k, w)

LEMMA QueueInit == Fifo!Init => QueueInv
BY FifoIs, EmptyWay DEF Fifo!Init, QueueInv, BothWays

LEMMA EmptyFilled == Filled(Links!Empty)
BY DEF Filled, Links!Empty, Links!Unallocated

LEMMA DequeInit == Deque!Init => DequeInv
BY DequeIs, EmptyWay, EmptyFilled DEF Deque!Init, DequeInv

LEMMA QueueKeeps == QueueInv /\ Fifo!Next => QueueInv'
<1> SUFFICES ASSUME NEW k, NEW w, OneWay(obj, k, w), Fifo!Next
             PROVE  \E j, v : OneWay(obj', j, v)
  BY DEF QueueInv
<1>1. CASE obj' = obj
  BY <1>1
<1>2. ASSUME NEW e \in Element, Fifo!Enqueue(e) PROVE \E j, v : OneWay(obj', j, v)
  <2> DEFINE f == Links!Fresh(obj)
  <2>1. obj' = Links!LinkRear(obj, f, e) /\ f \in Links!Id /\ ~obj.node[f].live
    BY <1>2, FifoIs, FreshIs DEF Fifo!Enqueue
  <2> HIDE DEF f
  <2>2. Behind(obj', obj, k, w, f)
    BY <2>1, RearIs
  <2>3. OneWay(obj', k + 1, Then(k, w, f))
    BY <2>1, <2>2, BehindKeeps
  <2> QED
    BY <2>3
<1>3. CASE Fifo!Dequeue
  <2>1. k > 0
    BY <1>3 DEF Fifo!Dequeue, OneWay
  <2>2. WithoutFront(obj', obj, k, w)
    BY <1>3, <2>1, UnlinkIs DEF Fifo!Dequeue
  <2>3. OneWay(obj', k - 1, Rest(k, w))
    BY <2>1, <2>2, RestKeeps
  <2> QED
    BY <2>3
<1>4. CASE Fifo!Renew
  BY <1>4, FifoIs, EmptyWay DEF Fifo!Renew, BothWays
<1> QED
  BY <1>1, <1>2, <1>3, <1>4
  DEF Fifo!Next, Fifo!NoMemory, Fifo!See, Fifo!SeeAll, Fifo!EmptyFails, Fifo!IsEmpty

LEMMA MapIs ==
  ASSUME NEW l, NEW k, NEW w, BothWays(l, k, w), Filled(l), NEW g \in [Element -> Element],
         NEW h, h = [n \in Links!Id |-> IF n \in Range(w) THEN [l.node[n] EXCEPT !.content = g[@]]
                                                         ELSE l.node[n]],
         NEW r, r = [l EXCEPT !.node = h]
  PROVE  BothWays(r, k, w) /\ Filled(r)
<1>1. l \in Links!List /\ OneWay(l, k, w) /\ DOMAIN w = 1..k
  BY WayIs DEF BothWays
<1>2. ASSUME NEW n \in Links!Id
      PROVE  /\ h[n] \in Cell /\ (h[n].live <=> l.node[n].live)
             /\ h[n].next = l.node[n].next /\ h[n].prev = l.node[n].prev
             /\ h[n].live => h[n].content \in Element
  <2>1. l.node[n] \in Cell /\ (n \in Range(w) <=> l.node[n].live)
    BY <1>1, ListIs DEF OneWay, Range
  <2>2. l.node[n].live => l.node[n].content \in Element
    BY DEF Filled
  <2>3. CASE n \in Range(w)
    <3>1. g[l.node[n].content] \in Element
      BY <2>1, <2>2, <2>3
    <3>2. h[n] = [l.node[n] EXCEPT !.content = g[l.node[n].content]]
      BY <2>3
    <3> QED
      BY <2>1, <3>1, <3>2 DEF Cell
  <2>4. CASE n \notin Range(w)
    BY <2>1, <2>2, <2>4
  <2> QED
    BY <2>3, <2>4
<1>3. h \in [Links!Id -> Cell]
  BY <1>2
<1>4. /\ r \in Links!List /\ r.node = h
      /\ r.front = l.front /\ r.rear = l.rear /\ r.size = l.size
  <2>1. r = [front |-> l.front, rear |-> l.rear, size |-> l.size, node |-> h]
    BY <1>1 DEF Links!List
  <2>2. /\ l.front \in Links!Id \cup {Null} /\ l.rear \in Links!Id \cup {Null} /\ l.size \in Nat
    BY <1>1, ListIs
  <2> QED
    BY ONLY <1>3, <2>1, <2>2, ListIs
<1>5. /\ OneWay(l, k, w) /\ r \in Links!List
      /\ r.front = l.front /\ r.rear = l.rear /\ r.size = l.size
      /\ \A n \in Links!Id : /\ r.node[n].live <=> l.node[n].live
                             /\ r.node[n].next = l.node[n].next /\ r.node[n].prev = l.node[n].prev
  BY <1>1, <1>2, <1>4
<1>6. BothWays(r, k, w)
  BY ONLY BothWays(l, k, w), <1>5, OneSame
<1> QED
  BY <1>2, <1>4, <1>6 DEF Filled

LEMMA DequeKeeps == DequeInv /\ Deque!Next => DequeInv'
<1> SUFFICES ASSUME NEW k, NEW w, BothWays(obj, k, w), Filled(obj), aux \in BOOLEAN, Deque!Next
             PROVE  aux' \in BOOLEAN /\ Filled(obj') /\ \E j, v : BothWays(obj', j, v)
  BY DEF DequeInv
<1>1. OneWay(obj, k, w)
  BY DEF BothWays
<1>2. aux' \in BOOLEAN
  BY DEF Deque!Next, Deque!FrontAdd, Deque!RearAdd, Deque!Map, Deque!NoMemory, Deque!FrontRemove,
         Deque!RearRemove, Deque!See, Deque!SeeAll, Deque!EmptyFails, Deque!Count, Deque!Renew
<1>3. ASSUME obj' = obj PROVE Filled(obj') /\ BothWays(obj', k, w)
  BY <1>3
<1>4. ASSUME NEW e \in Element, Deque!FrontAdd(e) \/ Deque!RearAdd(e)
      PROVE  Filled(obj') /\ \E j, v : BothWays(obj', j, v)
  <2> DEFINE f == Links!Fresh(obj)
  <2>1. f \in Links!Id /\ ~obj.node[f].live
    BY <1>4, DequeIs, FreshIs DEF Deque!FrontAdd, Deque!RearAdd
  <2>2. CASE Deque!RearAdd(e)
    <3>1. obj' = Links!LinkRear(obj, f, e)
      BY <2>2, DequeIs DEF Deque!RearAdd
    <3> HIDE DEF f
    <3>2. Behind(obj', obj, k, w, f)
      BY <1>1, <2>1, <3>1, RearIs
    <3>3. Filled(obj')
      BY <3>2 DEF Behind, Filled
    <3>4. BothWays(obj', k + 1, Then(k, w, f))
      BY <1>1, <2>1, <3>2, BehindKeeps
    <3> QED
      BY <3>3, <3>4
  <2>3. CASE Deque!FrontAdd(e)
    <3>1. obj' = Deque!LinkFront(obj, f, e)
      BY <2>3, DequeIs DEF Deque!FrontAdd
    <3> HIDE DEF f
    <3>2. Before(obj', obj, k, w, f)
      BY <2>1, <3>1, FrontIs
    <3>3. Filled(obj')
      BY <3>2 DEF Before, Filled
    <3>4. BothWays(obj', k + 1, First(k, w, f))
      BY <2>1, <3>2, BeforeKeeps
    <3> QED
      BY <3>3, <3>4
  <2> QED
    BY <1>4, <2>2, <2>3
<1>5. CASE Deque!FrontRemove
  <2>1. k > 0
    BY <1>1, <1>5 DEF Deque!FrontRemove, OneWay
  <2>2. /\ WithoutFront(obj', obj, k, w) /\ obj'.size = obj.size - 1
        /\ \A n \in Links!Id : n # w[1] =>
             obj'.node[n].prev = IF k > 1 /\ n = w[2] THEN Null ELSE obj.node[n].prev
    BY <1>5, <2>1, UnlinkFrontIs DEF Deque!FrontRemove
  <2>3. Filled(obj')
    BY <2>2 DEF WithoutFront, Filled
  <2>4. BothWays(obj', k - 1, Rest(k, w))
    BY <2>1, <2>2, RestKeepsBoth
  <2> QED
    BY <1>2, <2>3, <2>4
<1>6. CASE Deque!RearRemove
  <2>1. k > 0
    BY <1>1, <1>6 DEF Deque!RearRemove, OneWay
  <2>2. WithoutRear(obj', obj, k, w) /\ obj'.size = obj.size - 1
    BY <1>6, <2>1, UnlinkRearIs DEF Deque!RearRemove
  <2>3. Filled(obj')
    BY <2>2 DEF WithoutRear, Filled
  <2>4. BothWays(obj', k - 1, Most(k, w))
    BY <2>1, <2>2, MostKeeps
  <2> QED
    BY <1>2, <2>3, <2>4
<1>7. ASSUME NEW g \in Transform, Deque!Map(g) PROVE BothWays(obj', k, w) /\ Filled(obj')
  <2> DEFINE h == [n \in Links!Id |-> IF n \in Range(w) THEN [obj.node[n] EXCEPT !.content = g[@]]
                                                       ELSE obj.node[n]]
  <2>1. Deque!Walk(obj, obj.front, "next") = w
    BY <1>1, WayIs, DequeWalk
  <2>2. Deque!Range(w) = Range(w)
    BY DEF Deque!Range, Range
  <2>3. obj' = [obj EXCEPT !.node = h]
    BY <1>7, <2>1, <2>2, DequeIs DEF Deque!Map
  <2>4. g \in [Element -> Element]
    BY <1>7, ElementIs
  <2> HIDE DEF h
  <2>5. h = [n \in Links!Id |-> IF n \in Range(w) THEN [obj.node[n] EXCEPT !.content = g[@]]
                                                  ELSE obj.node[n]]
    BY DEF h
  <2> QED
    BY ONLY BothWays(obj, k, w), Filled(obj), <2>3, <2>4, <2>5, MapIs
<1>8. CASE Deque!Renew
  BY <1>8, DequeIs, EmptyWay, EmptyFilled DEF Deque!Renew
<1> QED
  BY <1>2, <1>3, <1>4, <1>5, <1>6, <1>7, <1>8
  DEF Deque!Next, Deque!NoMemory, Deque!See, Deque!SeeAll, Deque!EmptyFails, Deque!Count

(* From the rear the nodes in use are met in the opposite order.           *)
LEMMA WayBack ==
  ASSUME NEW l, NEW k, NEW w, BothWays(l, k, w)
  PROVE  Links!Walk(l, l.rear, "prev") = Links!Backwards(w)
<1> DEFINE v == [i \in 1..k |-> w[k + 1 - i]]
<1>1. /\ l \in Links!List /\ k \in Nat /\ Nodes \in Nat /\ DOMAIN w = 1..k /\ Len(w) = k
      /\ \A i \in 1..k : w[i] \in Links!Id
  BY WayIs DEF BothWays
<1>2. Links!Backwards(w) = v
  BY <1>1 DEF Links!Backwards
<1>3. /\ \A i, j \in 1..k : w[i] = w[j] => i = j
      /\ \A i \in 1..k - 1 : l.node[w[i + 1]].prev = w[i]
      /\ k > 0 => l.rear = w[k] /\ l.node[w[1]].prev = Null
      /\ k = 0 => l.rear = Null
  BY DEF BothWays, OneWay
<1>4. \A i \in 1..k : k + 1 - i \in 1..k
  BY <1>1
<1>5. v \in [1..k -> Links!Id] /\ \A i \in 1..k : v[i] = w[k + 1 - i]
  BY <1>1, <1>4
<1> HIDE DEF v
<1>6. ASSUME NEW i \in 1..k, NEW j \in 1..k, v[i] = v[j] PROVE i = j
  <2>1. w[k + 1 - i] = w[k + 1 - j]
    BY <1>5, <1>6
  <2>2. k + 1 - i = k + 1 - j
    BY <1>3, <1>4, <2>1
  <2> QED
    BY <1>1, <2>2
<1>7. ASSUME NEW i \in 1..k - 1 PROVE l.node[v[i]]["prev"] = v[i + 1]
  <2> DEFINE j == k - i
  <2>1. j \in 1..k - 1 /\ k + 1 - i = j + 1 /\ k + 1 - (i + 1) = j /\ i \in 1..k /\ i + 1 \in 1..k
    BY <1>1
  <2> HIDE DEF j
  <2>2. v[i] = w[j + 1] /\ v[i + 1] = w[j]
    BY <1>5, <2>1
  <2> QED
    BY <1>3, <2>1, <2>2
<1>8. ASSUME k > 0 PROVE l.node[v[k]]["prev"] = Null /\ l.rear = v[1]
  <2>1. k \in 1..k /\ 1 \in 1..k /\ k + 1 - k = 1 /\ k + 1 - 1 = k
    BY <1>1, <1>8
  <2>2. v[k] = w[1] /\ v[1] = w[k]
    BY <1>5, <2>1
  <2> QED
    BY <1>3, <1>8, <2>2
<1>9. Way(l, "prev", k, v)
  BY <1>1, <1>5, <1>6, <1>7, <1>8 DEF Way
<1>10. /\ "prev" \in {"next", "prev"} /\ l \in Links!List
       /\ (k = 0 => l.rear = Null) /\ (k # 0 => l.rear = v[1])
  BY <1>1, <1>3, <1>8
<1>11. Links!Walk(l, l.rear, "prev") = v
  BY ONLY <1>9, <1>10, WalkIs
<1> QED
  BY <1>2, <1>11

LEMMA InUse ==
  ASSUME NEW l, NEW k, NEW w, OneWay(l, k, w)
  PROVE  /\ Range(w) = Links!Id \ Links!Spare(l) /\ IsInjective(w)
         /\ l.rear = (IF w = <<>> THEN Null ELSE w[Len(w)])
         /\ w # <<>> => k > 0
<1>1. /\ k \in Nat /\ DOMAIN w = 1..k /\ Len(w) = k
      /\ \A i \in 1..k : w[i] \in Links!Id
  BY WayIs
<1>2. /\ \A i, j \in 1..k : w[i] = w[j] => i = j
      /\ \A n \in Links!Id : l.node[n].live <=> \E i \in 1..k : w[i] = n
      /\ k = 0 => l.rear = Null
      /\ k > 0 => l.rear = w[k]
  BY DEF OneWay
<1>3. w = <<>> <=> k = 0
  <2>1. CASE k = 0
    BY <1>1, <2>1
  <2>2. CASE k # 0
    BY <1>1, <2>2
  <2> QED
    BY <2>1, <2>2
<1>4. Range(w) = Links!Id \ Links!Spare(l)
  BY <1>1, <1>2 DEF Range, Links!Spare
<1>5. IsInjective(w)
  BY <1>1, <1>2 DEF IsInjective
<1> QED
  BY <1>1, <1>2, <1>3, <1>4, <1>5

LEMMA QueueLinked == QueueInv => Fifo!TypeOK /\ Fifo!Linked
<1> SUFFICES ASSUME NEW k, NEW w, OneWay(obj, k, w) PROVE Fifo!TypeOK /\ Fifo!Linked
  BY DEF QueueInv
<1>1. obj \in Fifo!List /\ Fifo!Walk(obj, obj.front, "next") = w
  BY WayIs, FifoWalk, FifoIs
<1>2. /\ Range(w) = Links!Id \ Links!Spare(obj) /\ IsInjective(w)
      /\ obj.rear = (IF w = <<>> THEN Null ELSE w[Len(w)])
      /\ w # <<>> => k > 0
  BY InUse
<1>3. Fifo!Range(w) = Range(w) /\ (Fifo!IsInjective(w) <=> IsInjective(w))
  BY DEF Fifo!Range, Range, Fifo!IsInjective, IsInjective
<1>4. w # <<>> => obj.node[obj.rear].next = Null
  BY <1>2 DEF OneWay
<1>5. Fifo!Id = Links!Id /\ Fifo!Spare(obj) = Links!Spare(obj)
  BY FifoIs
<1> QED
  BY <1>1, <1>2, <1>3, <1>4, <1>5 DEF Fifo!TypeOK, Fifo!Linked

LEMMA DequeLinked == DequeInv => Deque!TypeOK /\ Deque!LinkedBothWays
<1> SUFFICES ASSUME NEW k, NEW w, BothWays(obj, k, w), aux \in BOOLEAN
             PROVE  Deque!TypeOK /\ Deque!LinkedBothWays
  BY DEF DequeInv
<1>1. OneWay(obj, k, w)
  BY DEF BothWays
<1>2. obj \in Deque!List /\ Deque!Walk(obj, obj.front, "next") = w /\ Len(w) = k
  BY <1>1, WayIs, DequeWalk, DequeIs
<1>3. Deque!Walk(obj, obj.rear, "prev") = Links!Backwards(w)
  BY WayBack, DequeWalk
<1>4. /\ Range(w) = Links!Id \ Links!Spare(obj) /\ IsInjective(w)
      /\ obj.rear = (IF w = <<>> THEN Null ELSE w[Len(w)])
      /\ w # <<>> => k > 0
  BY <1>1, InUse
<1>5. /\ Deque!Range(w) = Range(w) /\ (Deque!IsInjective(w) <=> IsInjective(w))
      /\ Deque!Backwards(w) = Links!Backwards(w)
  BY DEF Deque!Range, Range, Deque!IsInjective, IsInjective, Deque!Backwards, Links!Backwards
<1>6. /\ obj.size = k
      /\ w # <<>> => obj.node[obj.rear].next = Null /\ obj.node[obj.front].prev = Null
  BY <1>4 DEF OneWay, BothWays
<1>7. Deque!Id = Links!Id /\ Deque!Spare(obj) = Links!Spare(obj)
  BY DequeIs
<1> QED
  BY <1>2, <1>3, <1>4, <1>5, <1>6, <1>7 DEF Deque!TypeOK, Deque!LinkedBothWays

=============================================================================
