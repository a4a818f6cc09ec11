----------------------------- MODULE AbstractTree -----------------------------
(***************************************************************************)
(* What the callers of a tree see: a set of values with keys, and a number *)
(* that goes up with every insertion and down with every removal.          *)
(***************************************************************************)
EXTENDS Integers, Sequences, FiniteSets

CONSTANTS TreeValue, RankOf, Searcher, Word, Null, Nothing

VARIABLES
  type,       \* the kind of tree: a red-black tree keeps equal keys
  contents,   \* the values stored
  counted,
  alive,      \* not destroyed
  pc,         \* what each thread is about to do
  answer

vars == <<type, contents, counted, alive, pc, answer>>

AskedFor(k) == {v \in contents : RankOf[v] = k}

(* All of the contents, in some order. *)
IsListing(s) == Len(s) = Cardinality(contents) /\ {s[i] : i \in 1..Len(s)} = contents

IsSorted(s) == \A i \in 1..Len(s) - 1 : RankOf[s[i]] <= RankOf[s[i + 1]]

Found(k) ==
  /\ \/ \E v \in AskedFor(k) : answer' = <<v>>
     \/ AskedFor(k) = {} /\ answer' = Nothing

(* Only an empty tree answers at once. *)
Begins(t) ==
  /\ pc[t] = <<>>
  /\ \/ /\ pc'[t] # <<>>
        /\ answer' = <<>>
     \/ /\ contents = {} \/ counted = 0
        /\ answer' \in {Nothing, <<"all", <<>>>>}
        /\ UNCHANGED pc
  /\ UNCHANGED <<contents, counted, alive>>

Search(t) ==
  /\ pc[t] # <<>> /\ pc[t][1] = "search"
  /\ Found(pc[t][2])
  /\ pc' = [pc EXCEPT ![t] = <<>>]
  /\ UNCHANGED <<contents, counted, alive>>

Walk(t) ==
  /\ pc[t] # <<>> /\ pc[t][1] = "walk"
  /\ pc' = [pc EXCEPT ![t] = <<>>]
  /\ IF contents = {} THEN answer' = Nothing
     ELSE /\ answer'[1] = "all" /\ IsListing(answer'[2])
          /\ pc[t][2] \in {"in", "context"} => IsSorted(answer'[2])
  /\ UNCHANGED <<contents, counted, alive>>

(* Of equal keys only a red-black tree keeps more than one. *)
Insert(v) ==
  /\ answer' = <<>>
  /\ UNCHANGED <<alive, pc>>
  /\ counted' = (counted + 1) % Word
  /\ contents' = IF type # "red_black_tree" /\ AskedFor(RankOf[v]) # {}
                 THEN contents ELSE contents \cup {v}

Remove(k) ==
  /\ UNCHANGED <<alive, pc>>
  /\ \/ AskedFor(k) = {} /\ answer' = Nothing /\ UNCHANGED <<contents, counted>>
     \/ /\ counted' = (counted - 1) % Word
        /\ \E v \in AskedFor(k) : answer' = <<v>> /\ contents' = contents \ {v}

See ==
  /\ UNCHANGED <<contents, counted, alive, pc>>
  /\ answer' \in {<<"empty", counted = 0>>, <<"count", counted>>,
                  <<"hash", IF contents = {} THEN Null ELSE contents>>}

(* Each value is released once. *)
Destroy ==
  /\ alive /\ ~alive' /\ contents' = {}
  /\ UNCHANGED pc
  /\ answer'[1] = "released" /\ IsListing(answer'[2])

Next ==
  /\ alive
  /\ \/ See
     \/ \E v \in TreeValue : Insert(v)
     \/ \E k \in {RankOf[v] : v \in TreeValue} : Remove(k)
     \/ \E t \in Searcher : Begins(t) \/ Search(t) \/ Walk(t)
     \/ Destroy
  /\ UNCHANGED type

=============================================================================
