------------------------------- MODULE Services -------------------------------
(***************************************************************************)
(* A Kubernetes service from its creation to its deletion: the two         *)
(* handlers of controller/handlers/lbaas.py at work on the service and its *)
(* endpoints at the same time.  They share nothing but the annotations.    *)
(***************************************************************************)
EXTENDS LBaaSSpec, LoadBalancer

vars == <<objectVars, specVars, lbVars, neutron, lapsed, faults>>

TypeOK == ObjectTypes /\ SpecTypes /\ LbTypes

Init == ObjectInit /\ SpecInit /\ LbInit

\* A new process takes the objects as they are; DELETED events are lost.
Restart ==
    /\ faults < MaxFaults /\ faults' = faults + 1
    /\ svcInbox' = IF ServiceExists THEN <<svc>> ELSE <<>>
    /\ epInbox'  = IF ep.exists THEN <<EndpointsEvent(FALSE, ep)>> ELSE <<>>
    /\ SpecIdle /\ svcNewer' = TRUE /\ LbIdle
    /\ lapsed' = (\/ lapsed \/ lbPc # "idle"
                  \/ \E i \in 1..Len(epInbox) :
                        epInbox[i].deleted /\ epInbox[i].object.state # NoState)
    /\ specLapsed' = specLapsed \cup (IF specPc = "idle" THEN {} ELSE {"failure"})
    /\ UNCHANGED <<svc, ep, neutron, lifeVars>>

Quiet == /\ specPc = "idle" /\ lbPc = "idle"
         /\ svcInbox = <<>> /\ epInbox = <<>>

SpecThread == SpecHandler /\ UNCHANGED <<lifeVars, lbVars, neutron, lapsed,
                                         faults>>
LbThread   == LbHandler /\ UNCHANGED <<svcVars, lifeVars, specVars>>

Next ==
    \/ K8s /\ UNCHANGED <<specVars, lbVars, neutron, lapsed, faults>>
    \/ SpecThread \/ LbThread
    \/ (NotReady \/ Fails) /\ UNCHANGED <<svcVars, lifeVars, specVars>>
    \/ /\ faults < MaxFaults /\ faults' = faults + 1
       /\ SpecFails
       /\ UNCHANGED <<lifeVars, lbVars, neutron, lapsed>>
    \/ Restart
    \/ Quiet /\ UNCHANGED vars

Spec == Init /\ [][Next]_vars

\* Each object's thread runs; users, pods and failures are free.
FairSpec == Spec /\ WF_vars(SpecThread) /\ WF_vars(LbThread)

-----------------------------------------------------------------------------
(* Properties.                                                              *)

\* Nothing of a state exists.
Gone(s) == /\ s.loadbalancer => ~neutron.loadbalancer
           /\ s.listeners \cap neutron.listeners = {}
           /\ s.pools \cap neutron.pools = {}
           /\ s.members \cap neutron.members = {}

\* _add_new_members finds what it looks up: a pool for every port of the spec,
\* a listener for every pool, and a port of the spec for every port name.  The
\* last one fails if the endpoints are deleted and still show a ready pod, but
\* by then nothing of their state is left in Neutron.
LookupsFound ==
    lbPc = "add_members" =>
      /\ lbaas.pools \subseteq lbaas.listeners
      /\ {p.port : p \in Spec_ports} \subseteq {l.port : l \in lbaas.pools}
      /\ UnknownTargets # {} => event.deleted /\ Gone(event.object.state)

Within(s, t) == /\ s.loadbalancer => t.loadbalancer
                /\ s.listeners \subseteq t.listeners
                /\ s.pools \subseteq t.pools
                /\ s.members \subseteq t.members

\* The states annotated on the endpoints and on those whose DELETED events
\* are still to come.
Annotated == {ep.state} \cup {epInbox[i].object.state :
                                i \in {i \in 1..Len(epInbox) : epInbox[i].deleted}}

\* Nothing in Neutron is forgotten: unless an event was dropped before its
\* end, what exists is in a state that on_present or on_deleted will start from.
NothingLeaked ==
    ~lapsed /\ lbPc = "idle" =>
      /\ neutron.loadbalancer => \E s \in Annotated : s.loadbalancer
      /\ neutron.listeners \subseteq UNION {s.listeners : s \in Annotated}
      /\ neutron.pools     \subseteq UNION {s.pools : s \in Annotated}
      /\ neutron.members   \subseteq UNION {s.members : s \in Annotated}

\* And nothing is in the endpoints' state that does not exist.
NothingImagined ==
    ~lapsed /\ lbPc = "idle" /\ epLives = 1 => Within(ep.state, neutron)

InStep == ServiceExists /\ ep.exists /\ ep.names = Names(svc.ports)
Wanted == ep.ready \X svc.ports
Has(t) == \E m \in neutron.members :
             /\ m.pod = t[1] /\ m.port = TargetPort[t[2].name]
             /\ m.pool.port = t[2].port
             /\ m.pool \in neutron.pools \cap neutron.listeners
             /\ neutron.loadbalancer

\* In the end a service with ready pods has a member for each pod and port,
\* and no others.
Converges ==
    <>[]( InStep /\ ep.ready # {} /\ ~lapsed /\ specLapsed = {} /\ epLives = 1 =>
            /\ \A t \in Wanted : Has(t)
            /\ \A m \in neutron.members : m.pod \in ep.ready )

\* In the end nothing is left of a deleted service.
Reclaimed == <>[]( ~ep.exists /\ ~lapsed => neutron = NoState )

-----------------------------------------------------------------------------
(* What the documentation says and the code does not do.                    *)

\* When nothing is left to handle and no request has failed, the endpoints
\* have the spec of the service.
SpecsAgree ==
    Quiet /\ InStep /\ epLives = 1 /\ specLapsed \subseteq {"conflict"}
      => ep.spec = svc.ports
=============================================================================
