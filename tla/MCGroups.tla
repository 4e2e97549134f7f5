------------------------------ MODULE MCGroups ------------------------------
(* Small instances of Groups.                                               *)
EXTENDS Groups

\* Every group exists on node 1, connection 1 is in group 1, no other is there.
OnNodeOne == [g \in Group |-> 1]
FirstHome == [c \in Conn |-> IF c = 1 THEN 1 ELSE 0]
=============================================================================
