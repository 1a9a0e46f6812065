---------------------------- MODULE MCAdminAuth ----------------------------
(* Instances of AdminAuth for TLC: all containers seed the same address.    *)
EXTENDS AdminAuth, TLC

CONSTANTS e1, e2

SameSeed == [c \in Containers |-> e1]
=============================================================================
