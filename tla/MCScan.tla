------------------------------- MODULE MCScan -------------------------------
(* A collection of three elements in three buckets, the second one empty. *)
EXTENDS Scan

CONSTANTS e1, e2, e3

ThreeBuckets == [e \in Elements |-> IF e = e1 THEN 1 ELSE 3]

=============================================================================
