-------------------------------- MODULE Sums --------------------------------
(* Sums of the values of a function: tons over goods, credits over lots; and *)
(* what sort_by does with a key.                                             *)
EXTENDS Integers, FiniteSets, FiniteSetsExt

\* The sum of f over S, a subset of its domain.
SumOver(f, S) == MapThenSumSet(LAMBDA x : f[x], S)

\* The items of seq that key numbers, in the order of their numbers.
Listed(seq, key) ==
  [k \in 1..Cardinality(DOMAIN key) |->
     seq[CHOOSE i \in DOMAIN key : Cardinality({j \in DOMAIN key : key[j] <= key[i]}) = k]]
=============================================================================
