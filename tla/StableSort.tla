------------------------------ MODULE StableSort ------------------------------
(* What Iterator::filter keeps of a sequence, slice::sort_by and sort_by_key make *)
(* of it, and Iterator::min_by_key and max_by_key choose from it; and the walk    *)
(* over an ordered map.                                                           *)
EXTENDS Integers, FiniteSets, SequencesExt

\* The elements of s that are in S, in their order.
Keep(s, S) ==
  FoldLeft(LAMBDA kept, x : IF x \in S THEN Append(kept, x) ELSE kept, <<>>, s)

Filter(s, Test(_)) == Keep(s, {x \in Range(s) : Test(x)})

\* s in an order, given as a set of pairs, equals in their order in s: each
\* element goes behind all that it does not precede.
SortedBy(s, order) ==
  LET Insert(sorted, x) ==
        LET later == {y \in Range(sorted) : <<x, y>> \in order}
        IN  Keep(sorted, Range(sorted) \ later) \o <<x>> \o Keep(sorted, later)
  IN  FoldLeft(Insert, <<>>, s)

StableSorted(s, Less(_, _)) == SortedBy(s, {p \in Range(s) \X Range(s) : Less(p[1], p[2])})

\* The elements of a finite set in their order, a strict and total one: before
\* the i-th there are i - 1.
InOrder(S, Less(_, _)) ==
  LET rank == [x \in S |-> Cardinality({y \in S : Less(y, x)})]
  IN  [i \in 1..Cardinality(S) |-> CHOOSE x \in S : rank[x] = i - 1]

\* The first of the least elements of s, and the last of the greatest.
FirstLeast(s, Key(_)) == s[CHOOSE i \in DOMAIN s :
  \A j \in DOMAIN s : Key(s[i]) < Key(s[j]) \/ (Key(s[i]) = Key(s[j]) /\ i <= j)]

LastGreatest(s, Key(_)) == s[CHOOSE i \in DOMAIN s :
  \A j \in DOMAIN s : Key(s[j]) < Key(s[i]) \/ (Key(s[i]) = Key(s[j]) /\ j <= i)]
===============================================================================
