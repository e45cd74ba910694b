----------------------------- MODULE MCCluster -----------------------------
(***************************************************************************)
(* Instances of Cluster for TLC: two hubs with a client each.              *)
(***************************************************************************)
EXTENDS Cluster

CONSTANTS h1, h2, a, b

OnTwoHubs == (a :> h1) @@ (b :> h2)

\* a makes two updates, b one.
Sends == [x \in Clients |-> IF x = a THEN 2 ELSE 1]

OneEach == [x \in Clients |-> 1]
=============================================================================
