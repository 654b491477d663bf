----------------------------- MODULE MCClients ------------------------------
(* An instance of Clients for TLC: a process with two concurrent calls and  *)
(* one that only connects.                                                  *)
EXTENDS Clients

CONSTANTS p1, p2, c1, c2

MCOwner == [c \in {c1, c2} |-> p1]
=============================================================================
