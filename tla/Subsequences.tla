------------------------------ MODULE Subsequences ------------------------------
(***************************************************************************)
(* The elements at some positions of a sequence, in their order: what a    *)
(* comprehension with a condition keeps of a list, or a removal of an      *)
(* ordered dictionary.                                                     *)
(***************************************************************************)
EXTENDS Integers, Sequences, FiniteSets

\* The place of position i among those of P.
Rank(P, i) == Cardinality({j \in P : j <= i})
Nth(P, k) == CHOOSE i \in P : Rank(P, i) = k

Subsequence(s, P) == [k \in 1 .. Cardinality(P) |-> s[Nth(P, k)]]

\* The sum of the numbers of s at the positions P.
SumAt(s, P) ==
  LET upTo[n \in 0 .. Len(s)] == IF n = 0 THEN 0 ELSE upTo[n - 1] + IF n \in P THEN s[n] ELSE 0
  IN  upTo[Len(s)]

\* The positions of P at which s has a value for the first time.
Firsts(s, P) == {i \in P : \A j \in P : s[j] = s[i] => i <= j}
=================================================================================
