------------------------- MODULE MCContainerCreate -------------------------
(* Instances of ContainerCreate for TLC. *)
EXTENDS ContainerCreate, TLC

CONSTANTS c1, c2, c3, p1, p2, ns1

OneNamespace == [c \in Calls |-> ns1]
LastApart == [c \in Calls |-> IF c = c3 THEN p2 ELSE p1]
=============================================================================
