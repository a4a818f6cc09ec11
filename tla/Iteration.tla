------------------------------ MODULE Iteration ------------------------------
(***************************************************************************)
(* What the proofs need about loops.  A loop of the code is a function of  *)
(* the number of its turns, defined by recursion on it; that there is such *)
(* a function, and what holds of it after any number of turns, comes from  *)
(* here.  Induction is stated of a set of numbers.                         *)
(***************************************************************************)
EXTENDS Integers, WellFoundedInduction, TLAPS

LEMMA LeastElement ==
  ASSUME NEW T \in SUBSET Nat, T # {}
  PROVE  \E x \in T : \A y \in T : x <= y
<1>. DEFINE R == OpToRel(<, Nat)
<1>1. IsWellFoundedOn(R, Nat)
  BY NatLessThanWellFounded
<1>2. \A y, z \in Nat : y < z => <<y, z>> \in R
  BY DEF OpToRel
<1>. HIDE DEF R
<1>3. PICK x \in T : \A y \in T : <<y, x>> \notin R
  BY <1>1, WFMin
<1>4. ASSUME NEW y \in T PROVE x <= y
  <2>1. y \in Nat /\ x \in Nat /\ <<y, x>> \notin R
    BY <1>3
  <2>2. ~(y < x)
    BY <2>1, <1>2
  <2>. QED
    BY <2>1, <2>2
<1>. QED
  BY <1>4

(* What holds at first and is kept by every turn holds after all.          *)
LEMMA Induction ==
  ASSUME NEW S \in SUBSET Nat, 0 \in S, \A n \in S : n + 1 \in S
  PROVE  S = Nat
<1>. SUFFICES ASSUME Nat \ S # {} PROVE FALSE
  OBVIOUS
<1>1. PICK x \in Nat \ S : \A y \in Nat \ S : x <= y
  BY LeastElement
<1>2. x # 0 /\ x - 1 \in Nat /\ ~(x <= x - 1)
  BY <1>1
<1>3. x - 1 \in S
  BY <1>1, <1>2
<1>. QED
  BY <1>2, <1>3

(* The same for the numbers up to n.                                       *)
LEMMA InductionUpTo ==
  ASSUME NEW n \in Nat, NEW S, 0 \in S, \A k \in 1..n : k - 1 \in S => k \in S
  PROVE  \A k \in 0..n : k \in S
<1>. DEFINE G == {k \in Nat : k <= n => k \in S}
<1>1. 0 \in G
  OBVIOUS
<1>2. ASSUME NEW k \in G PROVE k + 1 \in G
  <2>1. k + 1 <= n => k \in S /\ k + 1 \in 1..n /\ (k + 1) - 1 = k
    OBVIOUS
  <2>. QED
    BY <2>1
<1>. HIDE DEF G
<1>3. G = Nat
  <2>1. G \in SUBSET Nat
    BY DEF G
  <2>. QED
    BY <1>1, <1>2, <2>1, Induction
<1>. QED
  BY <1>3 DEF G

(* What each of n turns does with the members of S.                        *)
Turns(n, S) == [1..n -> [S -> S]]

(* What n turns from a lead through, when the k-th leads from x to F[k][x]. *)
Run(f, n, S, a, F) ==
  f \in [0..n -> S] /\ f[0] = a /\ \A k \in 1..n : f[k] = F[k][f[k - 1]]

LEMMA Iterates ==
  ASSUME NEW n \in Nat, NEW S, NEW a \in S, NEW F \in Turns(n, S)
  PROVE  \E f : Run(f, n, S, a, F)
<1>. DEFINE Ok(m, f) == f \in [0..m -> S] /\ f[0] = a /\ \A k \in 1..m : f[k] = F[k][f[k - 1]]
            G == {m \in Nat : m <= n => \E f : Ok(m, f)}
<1>1. 0 \in G
  <2>1. Ok(0, [k \in 0..0 |-> a])
    OBVIOUS
  <2>. QED
    BY <2>1
<1>2. ASSUME NEW m \in G, m + 1 <= n PROVE \E f : Ok(m + 1, f)
  <2>1. PICK f : Ok(m, f)
    BY <1>2
  <2>. USE DEF Turns
  <2>. DEFINE g == [k \in 0..m + 1 |-> IF k <= m THEN f[k] ELSE F[m + 1][f[m]]]
  <2>2. Ok(m + 1, g)
    BY <1>2, <2>1
  <2>. QED
    BY <2>2
<1>. HIDE DEF Ok
<1>3. ASSUME NEW m \in G PROVE m + 1 \in G
  BY <1>2
<1>. HIDE DEF G
<1>4. G = Nat
  <2>1. G \in SUBSET Nat
    BY DEF G
  <2>. QED
    BY <1>1, <1>3, <2>1, Induction
<1>5. n \in G /\ n <= n
  BY <1>4
<1>6. \E f : Ok(n, f)
  BY <1>5 DEF G
<1>7. PICK f : Ok(n, f)
  BY <1>6
<1>. QED
  BY <1>7 DEF Ok, Run

(* The k-th turn leads from a state in G[k - 1] to one in G[k]. *)
Leads(n, S, G, F) ==
  G \in [0..n -> SUBSET S] /\ \A k \in 1..n : \A x \in G[k - 1] : F[k][x] \in G[k]

(* What n such turns from a pass. *)
Passes(f, n, S, a, F, G) ==
  /\ f \in [0..n -> S] /\ f[0] = a
  /\ \A k \in 1..n : f[k] = F[k][f[k - 1]]
  /\ \A k \in 0..n : f[k] \in G[k]

(* A loop whose k-th turn leads from a state in G[k - 1] to one in G[k]    *)
(* ends in one of the last, if nothing is known of the turn elsewhere.     *)
LEMMA Guided ==
  ASSUME NEW n \in Nat, NEW S, NEW G, NEW a \in G[0], NEW F, Leads(n, S, G, F)
  PROVE  \E f : Passes(f, n, S, a, F, G)
<1> USE DEF Leads
<1> DEFINE H == [k \in 1..n |-> [x \in S |-> IF F[k][x] \in S THEN F[k][x] ELSE a]]
<1>1. a \in S /\ H \in Turns(n, S)
  BY DEF Turns
<1>2. \A k \in 1..n : \A x \in S : F[k][x] \in S => H[k][x] = F[k][x]
  OBVIOUS
<1> HIDE DEF H
<1>3. PICK f : Run(f, n, S, a, H)
  BY <1>1, Iterates
<1>4. f \in [0..n -> S] /\ f[0] = a /\ \A k \in 1..n : f[k] = H[k][f[k - 1]]
  BY <1>3 DEF Run
<1>5. \A k \in 1..n : k - 1 \in 0..n /\ G[k - 1] \subseteq S /\ k \in 0..n /\ G[k] \subseteq S
  OBVIOUS
<1> DEFINE I == {k \in 0..n : f[k] \in G[k]}
<1>6. ASSUME NEW k \in 1..n, k - 1 \in I PROVE k \in I /\ f[k] = F[k][f[k - 1]]
  <2>1. f[k - 1] \in G[k - 1]
    BY <1>6
  <2>2. F[k][f[k - 1]] \in G[k] /\ F[k][f[k - 1]] \in S /\ f[k - 1] \in S
    BY <1>5, <2>1
  <2> QED
    BY <1>2, <1>4, <1>5, <2>2
<1>7. 0 \in I
  BY <1>4
<1> HIDE DEF I
<1>8. \A k \in 0..n : k \in I
  BY <1>6, <1>7, InductionUpTo
<1>9. \A k \in 1..n : f[k] = F[k][f[k - 1]]
  BY <1>5, <1>6, <1>8
<1> QED
  BY <1>4, <1>8, <1>9 DEF I, Passes

=============================================================================
