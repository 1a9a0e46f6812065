----------------------------- MODULE MCDelivery -----------------------------
(* Small instances of Delivery for TLC.                                    *)
EXTENDS Delivery, TLC, FiniteSets

CONSTANTS j1, j2, w1, w2, a1, a2, c1, c2

\* Two containers with a worker each; every container serves requests.
TwoHosts == j1 :> c1 @@ j2 :> c2 @@ w1 :> c1 @@ w2 :> c2 @@ a1 :> c1 @@ a2 :> c2

\* Two workers of one container.
OneHost == [x \in {j1, j2, w1, w2, a1, a2} |-> c1]

HostsOf(all) == [x \in Workers \cup Jobs \cup Admins |-> all[x]]
MCTwoHosts == HostsOf(TwoHosts)
MCOneHost == HostsOf(OneHost)

Retries1 == [c \in Containers |-> 1]

\* A roll-out in which one container does not retry by itself.
RetriesMixed == c1 :> 0 @@ c2 :> 1
=============================================================================
