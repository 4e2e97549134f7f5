----------------------------- MODULE MCGateway -----------------------------
(* Small instances of Gateway.                                              *)
EXTENDS Gateway

TwoChildren == [c \in Conn |-> {1, 2}]
OneChild    == [c \in Conn |-> {1}]
=============================================================================
