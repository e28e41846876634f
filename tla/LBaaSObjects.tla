----------------------------- MODULE LBaaSObjects -----------------------------
(* The Neutron objects of a service, and the calls of the LBaaS driver.     *)
EXTENDS Integers

CONSTANT Ids  \* of Neutron objects, one set for each kind

ASSUME IdAssumption == 0 \notin Ids

LoadBalancer == 1
Listener     == 2
Pool         == 3
Member       == 4
Kinds        == LoadBalancer..Member

\* The object of each kind, 0 if none: a load balancer, its listener, the
\* listener's pool and the pool's member.
Chains == [Kinds -> Ids \cup {0}]
Empty  == [k \in Kinds |-> 0]

\* Without an object there is nothing of what it consists of.
Cut(chain, k) == [j \in Kinds |-> IF j >= k THEN 0 ELSE chain[j]]

Calls  == [op : {"ensure", "release"}, kind : Kinds]
NoCall == [op |-> "none", kind |-> LoadBalancer]
=============================================================================
