---------------------------- MODULE Subsequences ----------------------------
(***************************************************************************)
(* Filtering a sequence by the indices to keep: what the loops over        *)
(* QList and QQueue that erase or copy some of the elements leave.         *)
(***************************************************************************)
EXTENDS Integers, FiniteSets, Sequences

\* The elements of s at the indices I, in their order.
Rank(I, i) == Cardinality({j \in I : j <= i})
Subsequence(s, I) ==
    [k \in 1..Cardinality(I) |-> s[CHOOSE i \in I : Rank(I, i) = k]]

=============================================================================
