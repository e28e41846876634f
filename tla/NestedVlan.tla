------------------------------ MODULE NestedVlan ------------------------------
(***************************************************************************)
(* NestedVlanPodVIFDriver (controller/drivers/nested_vlan_vif.py): the VIF *)
(* of a pod on a virtual machine is a Neutron port and a subport with a    *)
(* VLAN id on the trunk of the machine.  Every pod has its green thread,   *)
(* every request to Neutron is a step, and others use the trunks as well.  *)
(*                                                                         *)
(* VLAN ids come from the segmentation driver of kuryr-lib, one pool for   *)
(* all trunks.  The local variables port and vlan_id of a thread, and the  *)
(* VIF it returns, are port[p] and vlan[p].                                *)
(***************************************************************************)
EXTENDS Naturals, FiniteSets

CONSTANTS Pods, Trunks,
          Trunk,        \* by pod: the trunk of the machine it runs on
          Ports, Vlans, \* ids
          NoPort, NoVlan,
          MaxFaults,    \* bound: requests that fail
          MaxOthers     \* bound: subports others add

ASSUME TrunkAssumption == Trunk \in [Pods -> Trunks]
ASSUME NoneAssumption  == NoPort \notin Ports /\ NoVlan \notin Vlans

VARIABLES pc,        \* by pod: the request that is next; "vif": it has its VIF
          port, vlan,
          free,      \* ids of the segmentation driver that are available
          ports,     \* Neutron: ports of pods
          subports,  \* Neutron, by trunk: [port, vlan]
          seen,      \* VLAN ids others have ever used
          failed,    \* a request_vif or release_vif has failed
          faults, others

threadVars == <<pc, port, vlan>>
vars == <<threadVars, free, ports, subports, seen, failed, faults, others>>

Subports == [port : Ports \cup {NoPort}, vlan : Vlans]

Requesting == {"create_port", "get_vlan", "add_subport", "get_vlan_again",
               "add_subport_again"}
Releasing  == {"remove_subport", "delete_port"}

TypeOK ==
    /\ pc \in [Pods -> {"idle", "vif"} \cup Requesting \cup Releasing]
    /\ port \in [Pods -> Ports \cup {NoPort}]
    /\ vlan \in [Pods -> Vlans \cup {NoVlan}]
    /\ free \subseteq Vlans /\ ports \subseteq Ports
    /\ subports \in [Trunks -> SUBSET Subports]
    /\ seen \subseteq Vlans
    /\ failed \in BOOLEAN /\ faults \in Nat /\ others \in Nat

Init ==
    /\ pc = [p \in Pods |-> "idle"]
    /\ port = [p \in Pods |-> NoPort] /\ vlan = [p \in Pods |-> NoVlan]
    /\ free = Vlans /\ ports = {}
    /\ subports = [t \in Trunks |-> {}] /\ seen = {}
    /\ failed = FALSE /\ faults = 0 /\ others = 0

At(p, from, to) == pc[p] = from /\ pc' = [pc EXCEPT ![p] = to]

\* The thread of p is done with its port and its VLAN id.
Forget(p) == /\ pc'   = [pc   EXCEPT ![p] = "idle"]
             /\ port' = [port EXCEPT ![p] = NoPort]
             /\ vlan' = [vlan EXCEPT ![p] = NoVlan]

VlansOf(t) == {s.vlan : s \in subports[t]}
Subport(p) == [port |-> port[p], vlan |-> vlan[p]]

-----------------------------------------------------------------------------
(* Neutron and the segmentation driver.                                     *)

PutSubport(p) ==
    subports' = [subports EXCEPT ![Trunk[p]] = @ \cup {Subport(p)}]

DropSubport(p) ==
    subports' = [subports EXCEPT ![Trunk[p]] = {s \in @ : s.port # port[p]}]

\* Mutant: the id stays available.
Allocate_Keep(p) ==
    \E v \in free \ VlansOf(Trunk[p]) :
       vlan' = [vlan EXCEPT ![p] = v] /\ UNCHANGED free

\* allocate_segmentation_id: an available id that is not in use on the trunk.
\* It may find on its way that ids in use are not available.
Allocate(p) ==
    \E v \in free \ VlansOf(Trunk[p]) :
       /\ vlan' = [vlan EXCEPT ![p] = v]
       /\ \E D \in SUBSET (free \cap VlansOf(Trunk[p])) :
             free' = free \ (D \cup {v})

\* Other controllers and users add subports to the trunks and remove them.
OtherAdds ==
    /\ others < MaxOthers /\ others' = others + 1
    /\ \E t \in Trunks : \E v \in Vlans \ VlansOf(t) :
          /\ subports' = [subports EXCEPT ![t] =
                             @ \cup {[port |-> NoPort, vlan |-> v]}]
          /\ seen' = seen \cup {v}
    /\ UNCHANGED <<threadVars, free, ports, failed, faults>>

OtherRemoves ==
    /\ \E t \in Trunks : \E s \in {s \in subports[t] : s.port = NoPort} :
          subports' = [subports EXCEPT ![t] = @ \ {s}]
    /\ UNCHANGED <<threadVars, free, ports, seen, failed, faults, others>>

outside == <<seen, faults, others>>

-----------------------------------------------------------------------------
(* request_vif.                                                             *)

\* The parent port is found by the pod's hostIP, and has a trunk.
RequestVif(p) ==
    /\ At(p, "idle", "create_port")
    /\ UNCHANGED <<port, vlan, free, ports, subports, failed, outside>>

\* Mutant: a port that exists already is taken.
CreatePort_Any(p) ==
    /\ At(p, "create_port", "get_vlan")
    /\ \E n \in Ports :
          ports' = ports \cup {n} /\ port' = [port EXCEPT ![p] = n]
    /\ UNCHANGED <<vlan, free, subports, failed, outside>>

CreatePort(p) ==
    /\ At(p, "create_port", "get_vlan")
    /\ \E n \in Ports \ ports :
          ports' = ports \cup {n} /\ port' = [port EXCEPT ![p] = n]
    /\ UNCHANGED <<vlan, free, subports, failed, outside>>

\* Neutron has a quota of ports.
OverQuota(p) ==
    /\ pc[p] = "create_port" /\ ports = Ports
    /\ Forget(p) /\ failed' = TRUE
    /\ UNCHANGED <<free, ports, subports, outside>>

\* show_trunk, and the choice of an id.
GetVlan(p) ==
    /\ At(p, "get_vlan", "add_subport")
    /\ Allocate(p)
    /\ UNCHANGED <<port, ports, subports, failed, outside>>

\* A retry allocates a second id; the first is not given back.
GetVlanAgain(p) ==
    /\ At(p, "get_vlan_again", "add_subport_again")
    /\ Allocate(p)
    /\ UNCHANGED <<port, ports, subports, failed, outside>>

\* No id is left: the exception drops the event, the port stays.
NoVlanLeft(p) ==
    /\ pc[p] \in {"get_vlan", "get_vlan_again"}
    /\ free \subseteq VlansOf(Trunk[p])
    /\ Forget(p) /\ failed' = TRUE
    /\ \E D \in SUBSET free : free' = free \ D
    /\ UNCHANGED <<ports, subports, outside>>

AddSubport(p) ==
    /\ At(p, "add_subport", "vif")
    /\ vlan[p] \notin VlansOf(Trunk[p])
    /\ PutSubport(p)
    /\ UNCHANGED <<port, vlan, free, ports, failed, outside>>

\* 409: another took the id.  `subport', the port's id so far, is now the list
\* that was sent.
AddConflict(p) ==
    /\ At(p, "add_subport", "get_vlan_again")
    /\ vlan[p] \in VlansOf(Trunk[p])
    /\ failed' = TRUE
    /\ UNCHANGED <<port, vlan, free, ports, subports, outside>>

\* A port_id that is a list is refused: the exception drops the event, the
\* port and the ids stay.
AddAgain(p) ==
    /\ pc[p] = "add_subport_again"
    /\ Forget(p) /\ failed' = TRUE
    /\ UNCHANGED <<free, ports, subports, outside>>

-----------------------------------------------------------------------------
(* release_vif.                                                             *)

ReleaseVif(p) ==
    /\ At(p, "vif", "remove_subport")
    /\ UNCHANGED <<port, vlan, free, ports, subports, failed, outside>>

\* Mutant: the VLAN id is given back and the subport stays.
RemoveSubport_Keep(p) ==
    /\ At(p, "remove_subport", "delete_port")
    /\ free' = free \cup {vlan[p]} /\ vlan' = [vlan EXCEPT ![p] = NoVlan]
    /\ UNCHANGED <<port, ports, subports, failed, outside>>

\* The subport is removed, and the VLAN id given back before the next request.
RemoveSubport(p) ==
    /\ At(p, "remove_subport", "delete_port")
    /\ DropSubport(p)
    /\ free' = free \cup {vlan[p]} /\ vlan' = [vlan EXCEPT ![p] = NoVlan]
    /\ UNCHANGED <<port, ports, failed, outside>>

\* Mutant: the port of a subport is left to the trunk.
DeletePort_Keep(p) ==
    /\ pc[p] = "delete_port" /\ Forget(p)
    /\ UNCHANGED <<free, ports, subports, failed, outside>>

DeletePort(p) ==
    /\ pc[p] = "delete_port" /\ Forget(p)
    /\ ports' = ports \ {port[p]}
    /\ UNCHANGED <<free, subports, failed, outside>>

-----------------------------------------------------------------------------
\* A request fails, perhaps after it took effect: the exception drops the
\* event, and nothing that was made or taken is given back.
Fails(p) ==
    /\ pc[p] \in Requesting \cup Releasing
    /\ faults < MaxFaults /\ faults' = faults + 1
    /\ Forget(p) /\ failed' = TRUE
    /\ \/ UNCHANGED <<ports, subports>>
       \/ /\ pc[p] = "create_port"
          /\ \E n \in Ports \ ports : ports' = ports \cup {n}
          /\ UNCHANGED subports
       \/ /\ pc[p] = "add_subport" /\ vlan[p] \notin VlansOf(Trunk[p])
          /\ PutSubport(p) /\ UNCHANGED ports
       \/ /\ pc[p] = "remove_subport"
          /\ DropSubport(p) /\ UNCHANGED ports
       \/ /\ pc[p] = "delete_port"
          /\ ports' = ports \ {port[p]} /\ UNCHANGED subports
    /\ UNCHANGED <<free, seen, others>>

Thread(p) ==
    \/ CreatePort(p) \/ OverQuota(p)
    \/ GetVlan(p) \/ GetVlanAgain(p) \/ NoVlanLeft(p)
    \/ AddSubport(p) \/ AddConflict(p) \/ AddAgain(p)
    \/ RemoveSubport(p) \/ DeletePort(p)

Next ==
    \/ \E p \in Pods : RequestVif(p) \/ ReleaseVif(p) \/ Thread(p) \/ Fails(p)
    \/ OtherAdds \/ OtherRemoves

Spec == Init /\ [][Next]_vars

-----------------------------------------------------------------------------
(* Properties.                                                              *)

\* A pod that has its VIF has the port and, on the trunk of its machine, the
\* subport with the VLAN id of the VIF, whatever happens to other pods.
VifOnTrunk ==
    \A p \in Pods : pc[p] = "vif" =>
        port[p] \in ports /\ Subport(p) \in subports[Trunk[p]]

\* The threads never get in each other's way: an id that one of them is about
\* to use is in use on the trunk only if others have taken it meanwhile.
OnlyOthersConflict ==
    \A p \in Pods : pc[p] \in {"add_subport", "add_subport_again"} =>
        \A s \in subports[Trunk[p]] : s.vlan = vlan[p] => s.port = NoPort

\* As long as nothing has failed, not even for a VLAN id taken by others,
\* every port, subport and VLAN id belongs to a pod or is available again.
NothingLeaked ==
    ~failed =>
      /\ ports \subseteq {port[p] : p \in Pods}
      /\ \A t \in Trunks : \A s \in subports[t] : s.port # NoPort =>
            \E p \in Pods : /\ Trunk[p] = t /\ s = Subport(p)
                           /\ pc[p] \in {"vif", "remove_subport"}
      /\ Vlans \subseteq free \cup {vlan[p] : p \in Pods} \cup seen
=============================================================================
