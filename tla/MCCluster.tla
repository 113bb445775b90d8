----------------------------- MODULE MCCluster -----------------------------
(* Three nodes, the last two with the same port; or two and a slot that moves from
   one to the other, for two walks and a key command. *)
EXTENDS Cluster

CONSTANTS n1, n2, n3, s1, s2, s3

Ports == [n \in Nodes |-> IF n = n1 THEN 1 ELSE 2]
SamePortOwners == [s \in Slots |-> IF s = s1 THEN n2 ELSE n3]
FirstSlotMoves == {<<s1, n1>>}
ThirdSlotMigrates == [s \in {s3} |-> n1]

FirstNodeOwns == [s \in Slots |-> n1]
SlotMovesOn == {<<s1, n2>>}
NoneMigrates == [s \in {} |-> n1]

=============================================================================
