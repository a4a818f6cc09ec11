-------------------------------- MODULE Cache --------------------------------
(***************************************************************************)
(* src/data/cache/cache.c: an array with the element used last in front.   *)
(* When it is full an insertion evicts the last one.  The elements belong  *)
(* to the caller, who may let the cache release those it drops.            *)
(***************************************************************************)
EXTENDS Container

VARIABLES
  cache,      \* count, max, pp_data, and whether pfn_allocator is given
  freed,      \* history: the elements the cache has released
  answer

vars == <<cache, freed, answer>>

Construct(n, frees) ==
  [count |-> 0, max |-> n, data |-> [s \in Slot |-> Null], frees |-> frees]

-----------------------------------------------------------------------------
(* The array. *)

Held(c) == 0..c.count - 1

(* The first place an element with key k has. *)
Place(c, k) ==
  CHOOSE s \in Held(c) : KeyOf[c.data[s]] = k /\ \A r \in 0..s - 1 : KeyOf[c.data[r]] # k
Has(c, k) == \E s \in Held(c) : KeyOf[c.data[s]] = k

(* Mutant: shift without the last step. *)
ToFront_Short(d, s, e) ==
  [x \in Slot |-> IF x = 0 THEN e ELSE IF x < s THEN d[x - 1] ELSE d[x]]

(* Shift what is before place s down onto it and put e in front. *)
ToFront(d, s, e) ==
  [x \in Slot |-> IF x = 0 THEN e ELSE IF x <= s THEN d[x - 1] ELSE d[x]]

CloseGap(c, s) ==
  [x \in Slot |-> IF x \in s..c.count - 2 THEN c.data[x + 1] ELSE c.data[x]]

Drop(c, e, x) == IF c.frees /\ x # e THEN {x} ELSE {}

-----------------------------------------------------------------------------
(* Operations. *)

Find(k) ==
  /\ Has(cache, k)
  /\ LET s == Place(cache, k) IN
       /\ cache' = [cache EXCEPT !.data = ToFront(@, s, cache.data[s])]
       /\ answer' = <<cache.data[s]>>
  /\ UNCHANGED freed

Peek(k) ==
  /\ Has(cache, k)
  /\ answer' = <<cache.data[Place(cache, k)]>>
  /\ UNCHANGED <<cache, freed>>

(* cache_find, cache_peek and cache_remove of a key that is not there. *)
Misses(k) ==
  /\ ~Has(cache, k)
  /\ answer' = Nothing
  /\ UNCHANGED <<cache, freed>>

Count ==
  /\ answer' = <<cache.count>>
  /\ UNCHANGED <<cache, freed>>

(* The caller has e from the allocator, so it is not released now. *)
Replace(e) ==
  /\ Has(cache, KeyOf[e])
  /\ LET s == Place(cache, KeyOf[e]) IN
       /\ cache' = [cache EXCEPT !.data = ToFront(@, s, e)]
       /\ freed' = (freed \ {e}) \cup Drop(cache, e, cache.data[s])
  /\ answer' = <<>>

(* Mutant: release what is in front after the shift. *)
Evict_FreesFront(e, frees) ==
  /\ ~Has(cache, KeyOf[e])
  /\ cache.count = cache.max
  /\ cache' = [cache EXCEPT !.data = ToFront(@, cache.max - 1, e)]
  /\ freed' = (freed \ {e}) \cup (IF frees THEN {cache.data[0]} ELSE {})
  /\ answer' = <<>>

(* Eviction releases with the allocator of this call, not of the cache. *)
Evict(e, frees) ==
  /\ ~Has(cache, KeyOf[e])
  /\ cache.count = cache.max
  /\ cache' = [cache EXCEPT !.data = ToFront(@, cache.max - 1, e)]
  /\ freed' = (freed \ {e}) \cup (IF frees THEN {cache.data[cache.max - 1]} ELSE {})
  /\ answer' = <<>>

(* Mutant: do not look whether there is room. *)
Insert_Unchecked(e) ==
  /\ ~Has(cache, KeyOf[e])
  /\ cache' = [cache EXCEPT !.data = ToFront(@, cache.count, e), !.count = @ + 1]
  /\ freed' = freed \ {e}
  /\ answer' = <<>>

Insert(e) ==
  /\ ~Has(cache, KeyOf[e])
  /\ cache.count # cache.max
  /\ cache' = [cache EXCEPT !.data = ToFront(@, cache.count, e), !.count = @ + 1]
  /\ freed' = freed \ {e}
  /\ answer' = <<>>

RemoveKey(k) ==
  /\ Has(cache, k)
  /\ LET s == Place(cache, k) IN
       /\ cache' = [cache EXCEPT !.data = CloseGap(cache, s), !.count = @ - 1]
       /\ answer' = <<cache.data[s]>>
  /\ UNCHANGED freed

(* Replace each element by its image, which must have its key; release the *)
(* ones replaced if the call gives an allocator.                           *)
Map(g, frees) ==
  LET changed == {cache.data[s] : s \in {x \in Held(cache) : g[cache.data[x]] # cache.data[x]}}
  IN  /\ \A e \in Element : KeyOf[g[e]] = KeyOf[e]
      /\ cache' = [cache EXCEPT !.data =
           [s \in Slot |-> IF s \in Held(cache) THEN g[cache.data[s]] ELSE cache.data[s]]]
      /\ freed' = (freed \ {g[e] : e \in changed}) \cup (IF frees THEN changed ELSE {})
      /\ answer' = <<>>

(* The elements in their order, for cache_fori and cache_for_each. *)
Contents(c) == [i \in 1..c.count |-> c.data[i - 1]]

Hash(c) == Hashed(Contents(c))

SeeAll ==
  /\ answer' \in {<<"all", Contents(cache)>>, <<"hash", Hash(cache)>>}
  /\ UNCHANGED <<cache, freed>>

(* cache_destroy, and cache_construct for another like it.                 *)
Renew ==
  LET released == IF cache.frees THEN Contents(cache) ELSE <<>>
  IN  /\ cache' = Construct(cache.max, cache.frees)
      /\ freed' = freed \cup Range(released)
      /\ answer' = <<"released", released>>

(* Mutant: first to last. *)
Pack_Forward(c) == [count |-> c.count, max |-> c.max, body |-> Contents(c)]

(* Last to first, so that inserting them one by one restores the order. *)
Pack(c) == [count |-> c.count, max |-> c.max, body |-> Backwards(Contents(c))]

Unpack(p) ==
  Through(LAMBDA c, e : [c EXCEPT !.data = ToFront(@, c.count, e), !.count = @ + 1],
          Construct(p.max, FALSE), p.body)

Init ==
  /\ cache \in {Construct(n, frees) : n \in 1..Size, frees \in BOOLEAN}
  /\ freed = {}
  /\ answer = <<>>

Next ==
  \/ \E k \in Key : Find(k) \/ Peek(k) \/ RemoveKey(k) \/ Misses(k)
  \/ \E e \in Element : Replace(e) \/ Insert(e) \/ \E frees \in BOOLEAN : Evict(e, frees)
  \/ \E g \in Transform, frees \in BOOLEAN : Map(g, frees)
  \/ Count \/ SeeAll \/ Renew

Spec == Init /\ [][Next]_vars

-----------------------------------------------------------------------------
(* What may be relied on. *)

TypeOK ==
  /\ cache \in [count : 0..Size, max : 1..Size, data : [Slot -> Element \cup {Null}],
                frees : BOOLEAN]
  /\ cache.count <= cache.max
  /\ freed \subseteq Element

(* One element for each key, and none that has been released. *)
Sound ==
  /\ \A r, s \in Held(cache) : KeyOf[cache.data[r]] = KeyOf[cache.data[s]] => r = s
  /\ \A s \in Held(cache) : cache.data[s] \in Element \ freed

(* A packed cache unpacks to one with the same elements in the same order  *)
(* of use.                                                                 *)
RoundTrip == Contents(Unpack(Pack(cache))) = Contents(cache)

Abs == INSTANCE AbstractSequence WITH items <- Contents(cache), capacity <- cache.max

=============================================================================
