---------------------------- MODULE VifTranslation ----------------------------
(***************************************************************************)
(* From the subnets of a pod to its Neutron port, from the port to the VIF *)
(* in the pod's annotation (os_vif_util.py), and from the VIF to the       *)
(* result the CNI driver prints (CNIRunner._write_vif).                    *)
(*                                                                         *)
(* A subnet stands for its network object, and for the address a port has  *)
(* in it: Neutron allocates one, as none is requested.                     *)
(***************************************************************************)
EXTENDS Integers, Functions, FiniteSets

CONSTANTS SubnetIds,
          IPv6,         \* those of IP version 6
          AutoAddress,  \* those whose addresses every port of the network has
          Gateways,     \* those with a gateway_ip
          Mappings      \* the sets of them a PodSubnetsDriver returns

ASSUME SubnetAssumption == /\ 0 \notin SubnetIds
                           /\ Mappings \subseteq SUBSET SubnetIds
ASSUME MappingAssumption == \A m \in Mappings : IsFiniteSet(m)

Versions   == {4, 6}
Version(s) == IF s \in IPv6 THEN 6 ELSE 4

\* The fixed_ips of a new port.
RequestedIps(subnets) == subnets
FixedIps(subnets)     == RequestedIps(subnets) \cup AutoAddress

\* Mutant: an address in a subnet that was not asked for is kept.
VifSubnets_All(fixedIps, subnets) == fixedIps

\* _make_vif_subnets
VifSubnets(fixedIps, subnets) == fixedIps \cap subnets

Vif(port, active, subnets) ==
    [id |-> port, active |-> active,
     subnets |-> VifSubnets(FixedIps(subnets), subnets)]

\* Every subnet of the VIF has a gateway.  In one of a Neutron subnet without
\* gateway_ip the attribute is not set, and reading it raises
\* NotImplementedError: `if subnet.gateway' is never false.
HasGateways(vif) == vif.subnets \subseteq Gateways

\* Two subnets of one IP version are two default routes.
SharedVersion(vif) ==
    \E s, t \in vif.subnets : s # t /\ Version(s) = Version(t)

\* A dict has no order.
Orders(S) == Injection(1..Cardinality(S), S)

\* A later subnet of the same version writes over the earlier one.
LastOf(order, S) ==
    LET Last(i) == /\ order[i] \in S
                   /\ \A j \in DOMAIN order : order[j] \in S => j <= i
    IN  IF \E i \in DOMAIN order : Last(i)
        THEN order[CHOOSE i \in DOMAIN order : Last(i)]
        ELSE 0

\* The result of a VIF that HasGateways.
CniResult(vif, order) ==
    [port    |-> vif.id,
     ip      |-> [v \in Versions |->
                     LastOf(order, {s \in SubnetIds : Version(s) = v})],
     gateway |-> [v \in Versions |->
                     LastOf(order, {s \in Gateways : Version(s) = v})]]
=============================================================================
