---------------------------- MODULE ServiceObjects ---------------------------
(***************************************************************************)
(* One Kubernetes service and its endpoints, as the handlers of            *)
(* controller/handlers/lbaas.py see them: two objects in the K8s API, each *)
(* with the annotations the handlers keep on it, its watch events that are *)
(* not handled yet, and the users and K8s controllers that change it.      *)
(*                                                                         *)
(* A port of the service is a name and a number; an empty annotation is    *)
(* one that is missing.  The service keeps its cluster IP.                 *)
(***************************************************************************)
EXTENDS Naturals, Sequences

CONSTANTS Pods,        \* the pods the service may select
          PortSpecs,   \* LBaaSPortSpec: [name, port]
          TargetPort,  \* by name: the port of the pods
          Ids,         \* ids Neutron may give to a listener
          MaxChanges,  \* bound: changes of the ports and of the pods
          MaxLives,    \* bound: creations of the service and of the endpoints
          MaxPending   \* bound: events waiting while others change an object

ASSUME PortSpecsAssumption ==
    \A p \in PortSpecs : p = [name |-> p.name, port |-> p.port]

Names(ports) == {p.name : p \in ports}

Listeners == [port : {p.port : p \in PortSpecs}, id : Ids]
Members   == [pool : Listeners, pod : Pods,
              port : {TargetPort[n] : n \in Names(PortSpecs)}]

\* LBaaSState.  A pool is named by the listener it was created for.
States  == [loadbalancer : BOOLEAN, listeners : SUBSET Listeners,
            pools : SUBSET Listeners, members : SUBSET Members]
NoState == [loadbalancer |-> FALSE, listeners |-> {}, pools |-> {},
            members |-> {}]

\* The service has ports; the annotation holds the ports of its LBaaSSpec.
Services  == [ports : SUBSET PortSpecs, spec : SUBSET PortSpecs]
NoService == [ports |-> {}, spec |-> {}]

\* Endpoints: the addresses of the pods that are ready and the names of the
\* ports.  No ready pod, but names: a subset of pods that are not ready.
Endpoints   == [exists : BOOLEAN, ready : SUBSET Pods,
                names : SUBSET Names(PortSpecs),
                spec : SUBSET PortSpecs, state : States]
NoEndpoints == [exists |-> FALSE, ready |-> {}, names |-> {},
                spec |-> {}, state |-> NoState]

VARIABLES svc, ep,       \* the objects
          svcInbox,      \* events of the service: what it has become
          epInbox,       \* events of the endpoints: [deleted, object]
          svcNewer,      \* the object has a newer resourceVersion than the one
          epNewer,       \* its handler works with (TRUE if it does not work)
          changes, svcLives, epLives

svcVars   == <<svc, svcInbox, svcNewer>>
epVars    == <<ep, epInbox, epNewer>>
lifeVars  == <<changes, svcLives, epLives>>
objectVars == <<svcVars, epVars, lifeVars>>

EndpointsEvents == [deleted : BOOLEAN, object : Endpoints]

SvcTypes  == svc \in Services /\ svcNewer \in BOOLEAN /\ svcInbox \in Seq(Services)
EpTypes   == ep \in Endpoints /\ epNewer \in BOOLEAN /\ epInbox \in Seq(EndpointsEvents)
LifeTypes == changes \in Nat /\ svcLives \in Nat /\ epLives \in Nat

ObjectTypes == SvcTypes /\ EpTypes /\ LifeTypes

ObjectInit ==
    /\ svc = NoService /\ ep = NoEndpoints
    /\ svcInbox = <<>> /\ epInbox = <<>>
    /\ svcNewer = TRUE /\ epNewer = TRUE
    /\ changes = 0 /\ svcLives = 0 /\ epLives = 0

\* The API stores an object that differs, gives it a new version and sends an
\* event.
StoreService(s) ==
    /\ svc' = s /\ svcNewer' = TRUE
    /\ svcInbox' = IF s = svc THEN svcInbox ELSE Append(svcInbox, s)

EndpointsEvent(d, e) == [deleted |-> d, object |-> e]

StoreEndpoints(e) ==
    /\ ep' = e /\ epInbox' = Append(epInbox, EndpointsEvent(FALSE, e))
    /\ epNewer' = TRUE

ServiceExists == svc.ports # {}

-----------------------------------------------------------------------------
(* Users.                                                                   *)

CreateService ==
    /\ ~ServiceExists /\ svcLives < MaxLives
    /\ svcLives' = svcLives + 1
    /\ \E P \in SUBSET PortSpecs \ {{}} :
          StoreService([ports |-> P, spec |-> {}])
    /\ UNCHANGED <<epVars, changes, epLives>>

ChangePorts ==
    /\ ServiceExists /\ changes < MaxChanges
    /\ changes' = changes + 1
    /\ \E P \in SUBSET PortSpecs \ {{}} :
          P # svc.ports /\ StoreService([svc EXCEPT !.ports = P])
    /\ UNCHANGED <<epVars, svcLives, epLives>>

DeleteService ==
    /\ ServiceExists
    /\ StoreService(NoService)
    /\ UNCHANGED <<epVars, lifeVars>>

-----------------------------------------------------------------------------
(* The endpoints controller: it lists the addresses of the pods under the   *)
(* names of the service's ports; without pods there is no subset.           *)

Subsets(e) ==
    {[e EXCEPT !.ready = R, !.names = Names(svc.ports)] : R \in SUBSET Pods}
      \cup {[e EXCEPT !.ready = {}, !.names = {}]}

CreateEndpoints ==
    /\ ServiceExists /\ ~ep.exists /\ epLives < MaxLives
    /\ epLives' = epLives + 1
    /\ \E e \in Subsets([NoEndpoints EXCEPT !.exists = TRUE]) : StoreEndpoints(e)
    /\ UNCHANGED <<svcVars, changes, svcLives>>

\* Pods come, go, or change their readiness.
ChangePods ==
    /\ ServiceExists /\ ep.exists /\ changes < MaxChanges
    /\ changes' = changes + 1
    /\ \E e \in Subsets(ep) \ {ep} : StoreEndpoints(e)
    /\ UNCHANGED <<svcVars, svcLives, epLives>>

\* The endpoints follow the ports of the service.
FollowPorts ==
    /\ ServiceExists /\ ep.exists
    /\ ep.names \notin {{}, Names(svc.ports)}
    /\ StoreEndpoints([ep EXCEPT !.names = Names(svc.ports)])
    /\ UNCHANGED <<svcVars, lifeVars>>

\* The endpoints of a deleted service are deleted.
DeleteEndpoints ==
    /\ ~ServiceExists /\ ep.exists
    /\ ep' = NoEndpoints /\ epNewer' = TRUE
    /\ epInbox' = Append(epInbox, EndpointsEvent(TRUE, ep))
    /\ UNCHANGED <<svcVars, lifeVars>>

K8s ==
    /\ Len(svcInbox) < MaxPending /\ Len(epInbox) < MaxPending
    /\ \/ CreateService \/ ChangePorts \/ DeleteService
       \/ CreateEndpoints \/ ChangePods \/ FollowPorts \/ DeleteEndpoints
=============================================================================
