---------------------------- MODULE Services_proofs ----------------------------
(***************************************************************************)
(* Proofs about Services, for any pods, ports, ids and bounds: the types,  *)
(* what _add_new_members finds of what it looks up, that nothing in        *)
(* Neutron is forgotten, and that nothing annotated is made up.            *)
(*                                                                         *)
(* A pool never has less than its listener in a state that is annotated or *)
(* worked on (Orderly), the events that are handled have the ports of      *)
(* their spec (Agrees), and by the time members are added every port has a *)
(* listener and every listener a pool (Reached).                           *)
(*                                                                         *)
(* Nothing is forgotten because a pass over an event is repeatable:        *)
(* lbaas_state is at each method a function of the event and of the        *)
(* listeners that exist (Mirror), what an unfinished pass has made is what *)
(* the next one finds again instead of making it anew (Moves, Gained,      *)
(* Added), and the state that is overwritten at the end is the one the     *)
(* pass began with (Fresh), of which only what is kept still exists        *)
(* (Removed).  Nothing is made up because a pass leaves alone what it      *)
(* keeps (Keeps, Backed).                                                  *)
(***************************************************************************)
EXTENDS Services, TLAPS

Orderly(s) == /\ s.pools \subseteq s.listeners
              /\ {m.pool : m \in s.members} \subseteq s.pools

Annotations == /\ Orderly(ep.state)
               /\ \A i \in 1..Len(epInbox) : Orderly(epInbox[i].object.state)

StatesOrderly == Annotations /\ Orderly(lbaas) /\ Orderly(event.object.state)

Agrees == lbPc # "idle" /\ ~event.deleted =>
            event.object.names = Names(event.object.spec)

Reached ==
    /\ lbPc \in {"add_pools", "add_members"} =>
         {p.port : p \in Spec_ports} \subseteq {l.port : l \in lbaas.listeners}
    /\ lbPc = "add_members" => lbaas.listeners \subseteq lbaas.pools

Inv == TypeOK /\ StatesOrderly /\ Agrees /\ Reached

-----------------------------------------------------------------------------
(* Data.                                                                    *)

\* The empty objects.
LEMMA Empty ==
    /\ NoState \in States /\ Orderly(NoState)
    /\ NoService \in Services
    /\ NoEndpoints \in Endpoints /\ NoEndpoints.state = NoState
    /\ NoEvent \in EndpointsEvents /\ NoEvent.object = NoEndpoints
<1>1. NoState \in States /\ Orderly(NoState)
  BY DEF NoState, States, Orderly
<1>2. NoService \in Services
  BY DEF NoService, Services
<1>3. NoEndpoints \in Endpoints /\ NoEndpoints.state = NoState
  BY <1>1 DEF NoEndpoints, Endpoints
<1> QED
  BY <1>1, <1>2, <1>3 DEF NoEvent, EndpointsEvent, EndpointsEvents

\* Skipping the events before the k-th leaves events of the inbox.
LEMMA Skipped ==
    ASSUME NEW S, NEW q \in Seq(S), NEW k \in 1..Len(q)
    PROVE  /\ SubSeq(q, k + 1, Len(q)) \in Seq(S) /\ q[k] \in S
           /\ \A i \in 1..Len(SubSeq(q, k + 1, Len(q))) :
                 \E j \in 1..Len(q) : SubSeq(q, k + 1, Len(q))[i] = q[j]
OBVIOUS

LEMMA Appended ==
    ASSUME NEW S, NEW q \in Seq(S), NEW e \in S
    PROVE  /\ Append(q, e) \in Seq(S)
           /\ \A i \in 1..Len(Append(q, e)) :
                 (\E j \in 1..Len(q) : Append(q, e)[i] = q[j]) \/ Append(q, e)[i] = e
OBVIOUS

LEMMA AtMostOne ==
    ASSUME NEW S, NEW e \in S, NEW b
    PROVE  (IF b THEN <<e>> ELSE <<>>) \in Seq(S)
<1>1. <<e>> \in Seq(S) /\ <<>> \in Seq(S)
  OBVIOUS
<1> QED
  BY <1>1

\* The service's ports and the endpoints' names.
LEMMA NamesOf ==
    ASSUME NEW P \in SUBSET PortSpecs
    PROVE  Names(P) \in SUBSET Names(PortSpecs)
BY DEF Names

-----------------------------------------------------------------------------
(* The objects.                                                             *)

LEMMA StoreServiceTypes ==
    ASSUME svcInbox \in Seq(Services), NEW s \in Services, StoreService(s)
    PROVE  svc' \in Services /\ svcNewer' \in BOOLEAN /\ svcInbox' \in Seq(Services)
BY DEF StoreService

LEMMA StoreEndpointsTypes ==
    ASSUME epInbox \in Seq(EndpointsEvents), NEW e \in Endpoints, StoreEndpoints(e)
    PROVE  ep' \in Endpoints /\ epNewer' \in BOOLEAN /\ epInbox' \in Seq(EndpointsEvents)
<1>1. EndpointsEvent(FALSE, e) \in EndpointsEvents
  BY DEF EndpointsEvent, EndpointsEvents
<1>2. Append(epInbox, EndpointsEvent(FALSE, e)) \in Seq(EndpointsEvents)
  BY <1>1, Appended
<1> QED
  BY <1>2 DEF StoreEndpoints

LEMMA SubsetsTypes ==
    ASSUME svc \in Services, NEW o \in Endpoints, NEW e \in Subsets(o)
    PROVE  e \in Endpoints /\ e.state = o.state /\ e.exists = o.exists
<1>1. Names(svc.ports) \in SUBSET Names(PortSpecs)
  BY NamesOf DEF Services
<1> QED
  BY <1>1 DEF Subsets, Endpoints

LEMMA K8sTypes ==
    ASSUME ObjectTypes, K8s
    PROVE  ObjectTypes'
<1>0. EpTypes /\ SvcTypes /\ LifeTypes
  BY DEF ObjectTypes
<1>1. CASE CreateService
  <2>1. PICK P \in SUBSET PortSpecs : StoreService([ports |-> P, spec |-> {}])
    BY <1>1 DEF CreateService
  <2>2. [ports |-> P, spec |-> {}] \in Services
    BY DEF Services
  <2>3. SvcTypes'
    BY <1>0, <2>1, <2>2, StoreServiceTypes DEF SvcTypes
  <2> QED
    BY <1>0, <1>1, <2>3 DEF ObjectTypes, CreateService, epVars, EpTypes, LifeTypes
<1>2. CASE ChangePorts
  <2>1. PICK P \in SUBSET PortSpecs : StoreService([svc EXCEPT !.ports = P])
    BY <1>2 DEF ChangePorts
  <2>2. [svc EXCEPT !.ports = P] \in Services
    BY <1>0 DEF SvcTypes, Services
  <2>3. SvcTypes'
    BY <1>0, <2>1, <2>2, StoreServiceTypes DEF SvcTypes
  <2> QED
    BY <1>0, <1>2, <2>3 DEF ObjectTypes, ChangePorts, epVars, EpTypes, LifeTypes
<1>3. CASE DeleteService
  <2>1. SvcTypes'
    BY <1>0, <1>3, Empty, StoreServiceTypes DEF DeleteService, SvcTypes
  <2> QED
    BY <1>0, <1>3, <2>1 DEF ObjectTypes, DeleteService, epVars, lifeVars, EpTypes, LifeTypes
<1>4. CASE CreateEndpoints
  <2>1. PICK e \in Subsets([NoEndpoints EXCEPT !.exists = TRUE]) : StoreEndpoints(e)
    BY <1>4 DEF CreateEndpoints
  <2>2. [NoEndpoints EXCEPT !.exists = TRUE] \in Endpoints
    BY Empty DEF Endpoints
  <2>3. EpTypes'
    BY <1>0, <2>1, <2>2, SubsetsTypes, StoreEndpointsTypes DEF EpTypes, SvcTypes
  <2> QED
    BY <1>0, <1>4, <2>3 DEF ObjectTypes, CreateEndpoints, svcVars, SvcTypes, LifeTypes
<1>5. CASE ChangePods
  <2>1. PICK e \in Subsets(ep) : StoreEndpoints(e)
    BY <1>5 DEF ChangePods
  <2>2. EpTypes'
    BY <1>0, <2>1, SubsetsTypes, StoreEndpointsTypes DEF EpTypes, SvcTypes
  <2> QED
    BY <1>0, <1>5, <2>2 DEF ObjectTypes, ChangePods, svcVars, SvcTypes, LifeTypes
<1>6. CASE FollowPorts
  <2>1. [ep EXCEPT !.names = Names(svc.ports)] \in Endpoints
    <3>1. Names(svc.ports) \in SUBSET Names(PortSpecs)
      BY <1>0, NamesOf DEF SvcTypes, Services
    <3> QED
      BY <1>0, <3>1 DEF EpTypes, Endpoints
  <2>2. EpTypes'
    BY <1>0, <1>6, <2>1, StoreEndpointsTypes DEF FollowPorts, EpTypes
  <2> QED
    BY <1>0, <1>6, <2>2 DEF ObjectTypes, FollowPorts, svcVars, lifeVars, SvcTypes, LifeTypes
<1>7. CASE DeleteEndpoints
  <2>1. EndpointsEvent(TRUE, ep) \in EndpointsEvents
    BY <1>0 DEF EpTypes, EndpointsEvent, EndpointsEvents
  <2>2. Append(epInbox, EndpointsEvent(TRUE, ep)) \in Seq(EndpointsEvents)
    BY <1>0, <2>1, Appended DEF EpTypes
  <2>3. EpTypes'
    BY <1>7, <2>2, Empty DEF DeleteEndpoints, EpTypes
  <2> QED
    BY <1>0, <1>7, <2>3 DEF ObjectTypes, DeleteEndpoints, svcVars, lifeVars, SvcTypes, LifeTypes
<1> QED
  BY <1>1, <1>2, <1>3, <1>4, <1>5, <1>6, <1>7 DEF K8s

-----------------------------------------------------------------------------
(* LBaaSSpecHandler.                                                        *)

LEMMA SpecIdleTypes ==
    ASSUME SpecIdle, specLapsed' \subseteq {"timeout", "conflict", "failure"}
    PROVE  SpecTypes'
BY Empty DEF SpecIdle, SpecTypes

LEMMA SpecHandlerTypes ==
    ASSUME ObjectTypes, SpecTypes, SpecHandler \/ SpecFails
    PROVE  EpTypes' /\ SvcTypes' /\ SpecTypes'
<1>0. /\ EpTypes /\ SvcTypes
      /\ specLapsed \subseteq {"timeout", "conflict", "failure"}
      /\ specPc \in {"idle", "endpoints", "service"} /\ service \in Services
      /\ specPc = "idle" <=> service = NoService
  BY DEF ObjectTypes, SpecTypes
<1>1. /\ UNCHANGED svcVars => SvcTypes'
      /\ UNCHANGED epVars => EpTypes'
  BY <1>0 DEF svcVars, epVars, SvcTypes, EpTypes
<1>2. [ep EXCEPT !.spec = service.ports] \in Endpoints
      /\ [svc EXCEPT !.spec = service.ports] \in Services
  BY <1>0 DEF Services, Endpoints, EpTypes, SvcTypes
<1>3. /\ StoreEndpoints([ep EXCEPT !.spec = service.ports]) => EpTypes'
      /\ StoreService([svc EXCEPT !.spec = service.ports]) => SvcTypes'
  BY <1>0, <1>2, StoreEndpointsTypes, StoreServiceTypes DEF EpTypes, SvcTypes
<1>4. ASSUME NEW k \in 1..Len(svcInbox), TakeService(k), UNCHANGED epVars
      PROVE  EpTypes' /\ SvcTypes' /\ SpecTypes'
  <2>1. /\ SubSeq(svcInbox, k + 1, Len(svcInbox)) \in Seq(Services)
        /\ svcInbox[k] \in Services
    BY <1>0, Skipped DEF SvcTypes
  <2>2. SvcTypes'
    <3>1. svcNewer' \in BOOLEAN
      <4>1. svcNewer' = TRUE \/ svcNewer' = (k < Len(svcInbox))
        BY <1>4 DEF TakeService
      <4>2. (k < Len(svcInbox)) \in BOOLEAN
        OBVIOUS
      <4> QED
        BY <4>1, <4>2
    <3>2. svc' \in Services /\ svcInbox' \in Seq(Services)
      BY <1>0, <1>4, <2>1 DEF TakeService, SvcTypes
    <3> QED
      BY <3>1, <3>2 DEF SvcTypes
  <2>3. SpecTypes'
    <3>1. CASE HasSpecChanges(svcInbox[k])
      <4>1. svcInbox[k] # NoService
        BY <3>1 DEF HasSpecChanges, NoService
      <4> QED
        BY <1>0, <1>4, <2>1, <3>1, <4>1 DEF TakeService, SpecTypes
    <3>2. CASE ~HasSpecChanges(svcInbox[k])
      BY <1>0, <1>4, <3>2, SpecIdleTypes DEF TakeService
    <3> QED
      BY <3>1, <3>2
  <2> QED
    BY <1>1, <1>4, <2>2, <2>3
<1>5. CASE AnnotateEndpoints /\ UNCHANGED svcVars
  <2>1. SpecTypes'
    BY <1>0, <1>5 DEF AnnotateEndpoints, SpecTypes
  <2> QED
    BY <1>1, <1>3, <1>5, <2>1 DEF AnnotateEndpoints
<1>6. CASE SpecGivesUp /\ UNCHANGED svcVars
  BY <1>0, <1>1, <1>6, SpecIdleTypes DEF SpecGivesUp
<1>7. CASE AnnotateService /\ UNCHANGED epVars
  BY <1>0, <1>1, <1>3, <1>7, SpecIdleTypes DEF AnnotateService
<1>8. CASE RetryService /\ UNCHANGED epVars
  <2>1. SpecTypes' /\ SvcTypes'
    BY <1>0, <1>8 DEF RetryService, specVars, SpecTypes, SvcTypes
  <2> QED
    BY <1>1, <1>8, <2>1
<1>9. CASE ServiceDiffers /\ UNCHANGED epVars
  BY <1>0, <1>1, <1>9, SpecIdleTypes DEF ServiceDiffers
<1>10. CASE SpecFails
  BY <1>0, <1>1, <1>3, <1>10, SpecIdleTypes DEF SpecFails
<1> QED
  BY <1>4, <1>5, <1>6, <1>7, <1>8, <1>9, <1>10 DEF SpecHandler

-----------------------------------------------------------------------------
(* LoadBalancerHandler: states.                                             *)

\* Members of a state and listeners, taken out and put in.
LEMMA StateUpdates ==
    ASSUME NEW s \in States, NEW M \in SUBSET Members, NEW L \in SUBSET Listeners,
           NEW b \in BOOLEAN
    PROVE  /\ [s EXCEPT !.members = @ \ M] \in States
           /\ [s EXCEPT !.members = @ \cup M] \in States
           /\ [s EXCEPT !.members = {}] \in States
           /\ [s EXCEPT !.pools = @ \ L] \in States
           /\ [s EXCEPT !.pools = @ \ L, !.members = {m \in @ : m.pool \notin L}] \in States
           /\ [s EXCEPT !.pools = @ \cup L] \in States
           /\ [s EXCEPT !.listeners = @ \ L] \in States
           /\ [s EXCEPT !.listeners = @ \cup L] \in States
           /\ [s EXCEPT !.loadbalancer = b] \in States
BY DEF States

\* What the loops go through.
LEMMA Todo ==
    ASSUME LbTypes
    PROVE  /\ UnusedMembers \in SUBSET Members
           /\ UnusedPools \in SUBSET Listeners /\ UnusedListeners \in SUBSET Listeners
           /\ MissingPools \in SUBSET Listeners
           /\ \A P : IdsLeft(P) => EnsuredListeners(P) \in SUBSET Listeners
<1>1. lbaas \in States /\ neutron \in States
  BY DEF LbTypes
<1>2. /\ UnusedMembers \in SUBSET Members
      /\ UnusedPools \in SUBSET Listeners /\ UnusedListeners \in SUBSET Listeners
      /\ MissingPools \in SUBSET Listeners
  BY <1>1 DEF UnusedMembers, UnusedPools, UnusedListeners, MissingPools, States
<1>3. ASSUME NEW P, IdsLeft(P), NEW p \in NewPorts(P)
      PROVE  NewListener(p) \in Listeners /\ NewListener(p).port = p
  BY <1>3 DEF IdsLeft, NewListener
<1>4. ASSUME NEW P, IdsLeft(P)
      PROVE  EnsuredListeners(P) \in SUBSET Listeners
  BY <1>1, <1>3, <1>4 DEF EnsuredListeners, States
<1> QED
  BY <1>2, <1>4

\* Every port has a listener once those that lack one are ensured.
LEMMA PortsEnsured ==
    ASSUME NEW P, IdsLeft(P), NEW p \in P
    PROVE  \E l \in EnsuredListeners(P) : l.port = p
<1>1. CASE p \in NewPorts(P)
  <2>1. NewListener(p).port = p
    BY <1>1 DEF IdsLeft, NewListener
  <2> QED
    BY <1>1, <2>1 DEF EnsuredListeners
<1>2. CASE p \notin NewPorts(P)
  BY <1>2 DEF NewPorts, EnsuredListeners
<1> QED
  BY <1>1, <1>2

\* The endpoints have the port names of their spec; a deleted event has no spec.
LEMMA Unknown ==
    ASSUME Agrees, lbPc # "idle"
    PROVE  /\ ~event.deleted => UnknownTargets = {}
           /\ event.deleted => MissingMembers = {}
<1>1. ASSUME ~event.deleted
      PROVE  UnknownTargets = {}
  <2>1. event.object.names = Names(Spec_ports)
    BY <1>1 DEF Agrees, Spec_ports
  <2> QED
    BY <2>1 DEF UnknownTargets, MissingTargets
<1>2. ASSUME event.deleted
      PROVE  MissingMembers = {}
  <2>1. Names(Spec_ports) = {}
    BY <1>2 DEF Spec_ports, Names
  <2> QED
    BY <2>1 DEF MissingMembers, UnknownTargets
<1> QED
  BY <1>1, <1>2

\* The pool of a port's name is found: the new members have types.
LEMMA MembersFound ==
    ASSUME LbTypes, Agrees, Reached, lbPc = "add_members"
    PROVE  /\ MissingMembers \in SUBSET Members
           /\ {m.pool : m \in MissingMembers} \subseteq lbaas.pools
<1>0. /\ event \in EndpointsEvents /\ lbaas \in States
      /\ event.object.names \in SUBSET Names(PortSpecs) /\ event.object.ready \in SUBSET Pods
      /\ event.object.spec \in SUBSET PortSpecs
  BY DEF LbTypes, EndpointsEvents, Endpoints
<1> SUFFICES ASSUME ~event.deleted, NEW t \in MissingTargets \ UnknownTargets
             PROVE  /\ PoolOf(t[2]) \in lbaas.pools
                    /\ [pool |-> PoolOf(t[2]), pod |-> t[1], port |-> TargetPort[t[2]]] \in Members
  BY Unknown DEF MissingMembers
<1>1. t[1] \in Pods /\ t[2] \in event.object.names
  BY <1>0 DEF MissingTargets
<1>2. Spec_ports = event.object.spec
  BY DEF Spec_ports
<1>3. PICK p \in Spec_ports : p.name = t[2]
  BY DEF UnknownTargets, Names
<1>4. PICK l \in lbaas.listeners : l.port = p.port
  BY <1>3 DEF Reached
<1>5. l \in lbaas.pools /\ [name |-> t[2], port |-> l.port] \in Spec_ports
  <2>1. p = [name |-> p.name, port |-> p.port]
    BY <1>0, <1>2, PortSpecsAssumption
  <2> QED
    BY <1>3, <1>4, <2>1 DEF Reached
<1>6. PoolOf(t[2]) \in lbaas.pools
  BY <1>5 DEF PoolOf
<1>7. PoolOf(t[2]) \in Listeners
  BY <1>0, <1>6 DEF States
<1>8. TargetPort[t[2]] \in {TargetPort[n] : n \in Names(PortSpecs)}
  BY <1>0, <1>1
<1> QED
  BY <1>1, <1>6, <1>7, <1>8 DEF Members

-----------------------------------------------------------------------------
(* LoadBalancerHandler: its steps.                                          *)

LEMMA LbIdleTypes ==
    ASSUME LbTypes, LbIdle, neutron' \in States, lapsed' \in BOOLEAN, faults' \in Nat
    PROVE  LbTypes' /\ epNewer' \in BOOLEAN
BY Empty DEF LbIdle, LbTypes

LEMMA BeginTypes ==
    ASSUME NEW v \in EndpointsEvents, Begin(v)
    PROVE  lbPc' = "remove_members" /\ lbaas' \in States /\ changed' \in BOOLEAN
<1>1. v.object.state \in States
  BY DEF EndpointsEvents, Endpoints
<1>2. [v.object.state EXCEPT !.members = {}] \in States
  BY <1>1 DEF States
<1> QED
  BY <1>1, <1>2 DEF Begin

LEMMA TakeTypes ==
    ASSUME ObjectTypes, LbTypes, NEW k \in 1..Len(epInbox), TakeEndpoints(k)
    PROVE  EpTypes' /\ LbTypes'
<1> DEFINE v == epInbox[k]
           gone == \E i \in 1..(k - 1) :
                      epInbox[i].deleted /\ epInbox[i].object.state # NoState
           ignored == IF v.deleted THEN v.object.state = NoState ELSE ShouldIgnore(v.object)
<1>0. /\ EpTypes /\ epInbox \in Seq(EndpointsEvents) /\ neutron \in States
      /\ lapsed \in BOOLEAN /\ faults \in Nat
  BY DEF ObjectTypes, EpTypes, LbTypes
<1>1. SubSeq(epInbox, k + 1, Len(epInbox)) \in Seq(EndpointsEvents) /\ v \in EndpointsEvents
  BY <1>0, Skipped
<1>2. /\ epInbox' = SubSeq(epInbox, k + 1, Len(epInbox)) /\ UNCHANGED <<ep, neutron, faults>>
      /\ \/ LbIdle /\ lapsed' = (lapsed \/ gone)
         \/ Drop
         \/ /\ Begin(v) /\ event' = v /\ epNewer' = (k < Len(epInbox))
            /\ lapsed' = (lapsed \/ gone)
  BY DEF TakeEndpoints
<1>3. lapsed' \in BOOLEAN
  <2>1. (lapsed \/ gone) \in BOOLEAN
    OBVIOUS
  <2> QED
    BY <1>2, <2>1 DEF Drop
<1>4. LbTypes' /\ epNewer' \in BOOLEAN
  <2>1. CASE LbIdle
    BY <1>0, <1>2, <1>3, <2>1, LbIdleTypes
  <2>2. CASE Begin(v) /\ event' = v /\ epNewer' = (k < Len(epInbox))
    <3>1. (k < Len(epInbox)) \in BOOLEAN
      OBVIOUS
    <3>2. lbPc' = "remove_members" /\ lbaas' \in States /\ changed' \in BOOLEAN
      BY <1>1, <2>2, BeginTypes
    <3> QED
      BY <1>0, <1>1, <1>2, <1>3, <2>2, <3>1, <3>2 DEF LbTypes, Steps
  <2> QED
    BY <1>2, <2>1, <2>2 DEF Drop
<1> QED
  BY <1>0, <1>1, <1>2, <1>4 DEF EpTypes

\* The loops change what exists, and the state they work on, alike.
Loop ==
    \/ RemoveUnusedMembers \/ RemoveUnusedPools \/ RemoveUnusedListeners
    \/ SyncLoadBalancer \/ AddNewListeners \/ AddNewPools \/ AddNewMembers

LEMMA LoopTypes ==
    ASSUME LbTypes, Agrees, Reached, Loop
    PROVE  LbTypes' /\ UNCHANGED epVars
<1>0. lbaas \in States /\ neutron \in States /\ event.deleted \in BOOLEAN
  BY DEF LbTypes, EndpointsEvents
<1>1. /\ UNCHANGED <<ep, epInbox, epNewer, event, lapsed, faults>>
      /\ lbPc' \in Steps \cup {"annotate"} /\ changed' \in BOOLEAN
  BY DEF Loop, RemoveUnusedMembers, RemoveUnusedPools, RemoveUnusedListeners,
         SyncLoadBalancer, AddNewListeners, AddNewPools, AddNewMembers, Step, Steps, LbTypes
<1>2. neutron' \in States /\ lbaas' \in States
  <2>1. CASE RemoveUnusedMembers
    BY <1>0, <2>1, StateUpdates, Todo DEF RemoveUnusedMembers, ReleaseMembers
  <2>2. CASE RemoveUnusedPools
    BY <1>0, <2>2, StateUpdates, Todo DEF RemoveUnusedPools, ReleasePools
  <2>3. CASE RemoveUnusedListeners
    BY <1>0, <2>3, StateUpdates, Todo DEF RemoveUnusedListeners, ReleaseListeners
  <2>4. CASE SyncLoadBalancer
    BY <1>0, <2>4, StateUpdates DEF SyncLoadBalancer
  <2>5. CASE AddNewListeners
    BY <1>0, <2>5, StateUpdates, Todo DEF AddNewListeners, EnsureListeners
  <2>6. CASE AddNewPools
    BY <1>0, <2>6, StateUpdates, Todo DEF AddNewPools, EnsurePools
  <2>7. CASE AddNewMembers
    BY <1>0, <2>7, StateUpdates, MembersFound DEF AddNewMembers, EnsureMembers, Step
  <2> QED
    BY <2>1, <2>2, <2>3, <2>4, <2>5, <2>6, <2>7 DEF Loop
<1> QED
  BY <1>1, <1>2 DEF LbTypes, epVars

\* What a failing loop leaves.
LEMMA PartlyTypes ==
    ASSUME LbTypes, Agrees, Reached, Partly
    PROVE  neutron' \in States
<1>0. neutron \in States
  BY DEF LbTypes
<1>1. CASE \E M \in SUBSET UnusedMembers : neutron' = ReleaseMembers(M)
  BY <1>0, <1>1, StateUpdates, Todo DEF ReleaseMembers
<1>2. CASE \E L \in SUBSET UnusedPools : neutron' = ReleasePools(L)
  <2>1. PICK L \in SUBSET UnusedPools : neutron' = ReleasePools(L)
    BY <1>2
  <2>2. L \in SUBSET Listeners
    BY Todo
  <2> QED
    BY <1>0, <2>1, <2>2, StateUpdates DEF ReleasePools
<1>3. CASE \E L \in SUBSET UnusedListeners : neutron' = ReleaseListeners(L)
  BY <1>0, <1>3, StateUpdates, Todo DEF ReleaseListeners
<1>4. CASE neutron' = [neutron EXCEPT !.loadbalancer = ~event.deleted] \/ UNCHANGED neutron
  BY <1>0, <1>4, StateUpdates
<1>5. CASE \E P \in SUBSET MissingPorts : IdsLeft(P) /\ neutron' = EnsureListeners(P)
  BY <1>0, <1>5, StateUpdates, Todo DEF EnsureListeners
<1>6. CASE \E L \in SUBSET MissingPools : neutron' = EnsurePools(L)
  BY <1>0, <1>6, StateUpdates, Todo DEF EnsurePools
<1>7. ASSUME lbPc = "add_members",
             NEW M \in SUBSET {m \in MissingMembers : m.pool \in neutron.pools},
             neutron' = EnsureMembers(M)
      PROVE  neutron' \in States
  BY <1>0, <1>7, StateUpdates, MembersFound DEF EnsureMembers
<1> QED
  BY <1>1, <1>2, <1>3, <1>4, <1>5, <1>6, <1>7 DEF Partly

Retries == NotReady \/ Fails

\* The annotation of the state, and the ways to give an event up.
Ends == \/ NothingToAnnotate \/ AnnotateState \/ RetryState \/ StateDiffers
        \/ NotFound \/ PortUnknown \/ ReleaseGivesUp

LEMMA EndsTypes ==
    ASSUME ObjectTypes, LbTypes, Agrees, Reached, Ends
    PROVE  EpTypes' /\ LbTypes'
<1>0. /\ EpTypes /\ neutron \in States /\ lapsed \in BOOLEAN /\ faults \in Nat
      /\ lbaas \in States
  BY DEF ObjectTypes, LbTypes
<1>1. CASE AnnotateState
  <2>1. [ep EXCEPT !.state = lbaas] \in Endpoints
    BY <1>0 DEF EpTypes, Endpoints
  <2>2. EpTypes'
    <3>1. CASE UNCHANGED <<ep, epInbox>> /\ epNewer' = TRUE
      BY <1>0, <3>1 DEF EpTypes
    <3>2. CASE StoreEndpoints([ep EXCEPT !.state = lbaas])
      BY <1>0, <2>1, <3>2, StoreEndpointsTypes DEF EpTypes
    <3> QED
      BY <1>1, <3>1, <3>2 DEF AnnotateState
  <2>3. LbTypes'
    BY <1>0, <1>1, Empty DEF AnnotateState, LbTypes
  <2> QED
    BY <2>2, <2>3
<1>2. CASE RetryState
  BY <1>0, <1>2 DEF RetryState, lbVars, LbTypes, EpTypes
<1>3. CASE NothingToAnnotate \/ StateDiffers \/ NotFound \/ ReleaseGivesUp
  <2>1. /\ LbIdle /\ UNCHANGED <<ep, epInbox, neutron, faults>>
        /\ lapsed' \in BOOLEAN
    BY <1>0, <1>3 DEF NothingToAnnotate, StateDiffers, NotFound, ReleaseGivesUp, Drop
  <2> QED
    BY <1>0, <2>1, LbIdleTypes DEF EpTypes
<1>4. CASE PortUnknown
  <2>1. /\ LbIdle /\ UNCHANGED <<ep, epInbox, faults>> /\ neutron' \in States
        /\ lapsed' \in BOOLEAN
    BY <1>0, <1>4, PartlyTypes DEF PortUnknown
  <2> QED
    BY <1>0, <2>1, LbIdleTypes DEF EpTypes
<1> QED
  BY <1>1, <1>2, <1>3, <1>4 DEF Ends

LEMMA RetriesTypes ==
    ASSUME ObjectTypes, LbTypes, Agrees, Reached, Retries
    PROVE  EpTypes' /\ LbTypes'
<1>0. /\ EpTypes /\ neutron' \in States /\ faults \in Nat /\ event \in EndpointsEvents
      /\ lapsed \in BOOLEAN
  BY PartlyTypes DEF Retries, NotReady, Fails, ObjectTypes, LbTypes
<1>1. CASE NotReady
  <2>1. lbPc' = "remove_members" /\ lbaas' \in States /\ changed' \in BOOLEAN
    BY <1>0, <1>1, BeginTypes DEF NotReady
  <2> QED
    BY <1>0, <1>1, <2>1 DEF NotReady, LbTypes, EpTypes, Steps
<1>2. CASE Fails
  <2>1. LbTypes' /\ epNewer' \in BOOLEAN
    BY <1>0, <1>2, LbIdleTypes DEF Fails, Drop
  <2> QED
    BY <1>0, <1>2, <2>1 DEF Fails, EpTypes
<1> QED
  BY <1>1, <1>2 DEF Retries

-----------------------------------------------------------------------------
(* Types.                                                                   *)

LEMMA RestartTypes ==
    ASSUME TypeOK, Restart
    PROVE  TypeOK'
<1>0. /\ EpTypes /\ SvcTypes /\ LifeTypes /\ LbTypes /\ neutron \in States
      /\ faults \in Nat /\ lapsed \in BOOLEAN
      /\ specLapsed \subseteq {"timeout", "conflict", "failure"}
  BY DEF TypeOK, ObjectTypes, SpecTypes, LbTypes
<1>1. EndpointsEvent(FALSE, ep) \in EndpointsEvents
  BY <1>0 DEF EpTypes, EndpointsEvent, EndpointsEvents
<1>2. EpTypes'
  <2>1. epInbox' \in Seq(EndpointsEvents)
    BY <1>1, AtMostOne DEF Restart
  <2> QED
    BY <1>0, <2>1 DEF Restart, LbIdle, EpTypes
<1>3. SvcTypes' /\ LifeTypes'
  BY <1>0 DEF Restart, lifeVars, SvcTypes, LifeTypes
<1>4. SpecTypes'
  BY <1>0, SpecIdleTypes DEF Restart
<1>5. LbTypes'
  <2>1. lapsed' \in BOOLEAN
    BY DEF Restart
  <2> QED
    BY <1>0, <2>1, LbIdleTypes DEF Restart
<1> QED
  BY <1>2, <1>3, <1>4, <1>5 DEF TypeOK, ObjectTypes

LEMMA TypeStep ==
    ASSUME TypeOK, Agrees, Reached, [Next]_vars
    PROVE  TypeOK'
<1>0. EpTypes /\ SvcTypes /\ LifeTypes /\ ObjectTypes /\ SpecTypes /\ LbTypes
  BY DEF TypeOK, ObjectTypes
<1>1. /\ UNCHANGED svcVars => SvcTypes'
      /\ UNCHANGED epVars => EpTypes'
      /\ UNCHANGED lifeVars => LifeTypes'
      /\ UNCHANGED specVars => SpecTypes'
      /\ UNCHANGED <<lbVars, neutron, lapsed>> /\ faults' \in Nat => LbTypes'
  BY <1>0 DEF svcVars, epVars, lifeVars, specVars, lbVars,
              SvcTypes, EpTypes, LifeTypes, SpecTypes, LbTypes
<1>2. faults \in Nat
  BY <1>0 DEF LbTypes
<1>3. CASE K8s /\ UNCHANGED <<specVars, lbVars, neutron, lapsed, faults>>
  BY <1>0, <1>1, <1>2, <1>3, K8sTypes DEF TypeOK
<1>4. CASE SpecThread
  BY <1>0, <1>1, <1>2, <1>4, SpecHandlerTypes DEF SpecThread, TypeOK, ObjectTypes
<1>5. CASE SpecFails /\ faults' = faults + 1 /\ UNCHANGED <<lifeVars, lbVars, neutron, lapsed>>
  BY <1>0, <1>1, <1>2, <1>5, SpecHandlerTypes DEF TypeOK, ObjectTypes
<1>6. CASE LbHandler /\ UNCHANGED <<svcVars, lifeVars, specVars>>
  <2>1. EpTypes' /\ LbTypes'
    BY <1>0, <1>1, <1>6, TakeTypes, LoopTypes, EndsTypes DEF LbHandler, Loop, Ends
  <2> QED
    BY <1>1, <1>6, <2>1 DEF TypeOK, ObjectTypes
<1>7. CASE Retries /\ UNCHANGED <<svcVars, lifeVars, specVars>>
  BY <1>0, <1>1, <1>7, RetriesTypes DEF TypeOK, ObjectTypes
<1>8. CASE UNCHANGED vars
  BY <1>0, <1>1, <1>2, <1>8 DEF vars, objectVars, TypeOK, ObjectTypes
<1> QED
  BY <1>3, <1>4, <1>5, <1>6, <1>7, <1>8, RestartTypes DEF Next, LbThread, Retries

-----------------------------------------------------------------------------
(* Pools and their listeners.                                               *)

\* The endpoints change, but not the state annotated on them; new ones have
\* none.
LEMMA OthersStep ==
    ASSUME TypeOK, K8s \/ SpecHandler \/ SpecFails
    PROVE  \/ UNCHANGED epVars
           \/ DeleteEndpoints
           \/ \E e : /\ StoreEndpoints(e) /\ e.exists
                    /\ e.state = IF ep.exists THEN ep.state ELSE NoState
<1>0. ep \in Endpoints /\ svc \in Services
  BY DEF TypeOK, ObjectTypes, EpTypes, SvcTypes
<1>1. /\ [ep EXCEPT !.spec = service.ports].state = ep.state
      /\ [ep EXCEPT !.spec = service.ports].exists = ep.exists
  BY <1>0 DEF Endpoints
<1>2. CASE CreateEndpoints
  <2>1. PICK e \in Subsets([NoEndpoints EXCEPT !.exists = TRUE]) : StoreEndpoints(e)
    BY <1>2 DEF CreateEndpoints
  <2>2. /\ [NoEndpoints EXCEPT !.exists = TRUE] \in Endpoints
        /\ [NoEndpoints EXCEPT !.exists = TRUE].state = NoState
        /\ [NoEndpoints EXCEPT !.exists = TRUE].exists
    BY Empty DEF Endpoints, NoEndpoints
  <2> QED
    BY <1>0, <1>2, <2>1, <2>2, SubsetsTypes DEF CreateEndpoints
<1>3. CASE ChangePods
  BY <1>0, <1>3, SubsetsTypes DEF ChangePods
<1>4. CASE FollowPorts
  <2>1. /\ [ep EXCEPT !.names = Names(svc.ports)].state = ep.state
        /\ [ep EXCEPT !.names = Names(svc.ports)].exists = ep.exists
    BY <1>0 DEF Endpoints
  <2> QED
    BY <1>4, <2>1 DEF FollowPorts
<1>5. CASE CreateService \/ ChangePorts \/ DeleteService
  BY <1>5 DEF CreateService, ChangePorts, DeleteService
<1>6. CASE SpecHandler
  BY <1>1, <1>6 DEF SpecHandler, AnnotateEndpoints, SpecGivesUp
<1>7. CASE SpecFails
  BY <1>1, <1>7 DEF SpecFails
<1> QED
  BY <1>2, <1>3, <1>4, <1>5, <1>6, <1>7 DEF K8s

\* One more event with an orderly state.
LEMMA OneMore ==
    ASSUME TypeOK, Annotations, NEW v \in EndpointsEvents, Orderly(v.object.state),
           epInbox' = Append(epInbox, v), Orderly(ep'.state)
    PROVE  Annotations'
<1>0. epInbox \in Seq(EndpointsEvents)
  BY DEF TypeOK, ObjectTypes, EpTypes
<1>1. PICK s : s = epInbox'
  OBVIOUS
<1>2. \A i \in 1..Len(s) : (\E j \in 1..Len(epInbox) : s[i] = epInbox[j]) \/ s[i] = v
  BY <1>0, <1>1, Appended
<1>3. \A i \in 1..Len(s) : Orderly(s[i].object.state)
  BY <1>2 DEF Annotations
<1> QED
  BY <1>1, <1>3 DEF Annotations, Orderly

LEMMA AnnotationsOfOthers ==
    ASSUME TypeOK, Annotations, K8s \/ SpecHandler \/ SpecFails
    PROVE  Annotations'
<1>0. TypeOK /\ ep \in Endpoints /\ EpTypes'
  BY K8sTypes, SpecHandlerTypes DEF TypeOK, ObjectTypes, EpTypes
<1>1. CASE UNCHANGED epVars
  BY <1>1 DEF epVars, Annotations, Orderly
<1>2. CASE DeleteEndpoints
  <2>1. /\ EndpointsEvent(TRUE, ep) \in EndpointsEvents
        /\ EndpointsEvent(TRUE, ep).object = ep
    BY <1>0 DEF EndpointsEvent, EndpointsEvents
  <2>2. Orderly(ep.state) /\ Orderly(ep'.state)
    BY <1>2, Empty DEF DeleteEndpoints, Annotations
  <2> QED
    BY <1>2, <2>1, <2>2, OneMore DEF DeleteEndpoints
<1>3. ASSUME NEW e, StoreEndpoints(e), e.state \in {ep.state, NoState}
      PROVE  Annotations'
  <2>1. ep' = e /\ e \in Endpoints
    BY <1>0, <1>3 DEF StoreEndpoints, EpTypes
  <2>2. /\ EndpointsEvent(FALSE, e) \in EndpointsEvents
        /\ EndpointsEvent(FALSE, e).object = e
    BY <2>1 DEF EndpointsEvent, EndpointsEvents
  <2>3. Orderly(e.state)
    BY <1>3, Empty DEF Annotations
  <2> QED
    BY <1>3, <2>1, <2>2, <2>3, OneMore DEF StoreEndpoints
<1> QED
  BY <1>1, <1>2, <1>3, OthersStep

\* A retried or new event begins with its annotated state.
LEMMA BeginOrderly ==
    ASSUME NEW v \in EndpointsEvents, Orderly(v.object.state), Begin(v)
    PROVE  Orderly(lbaas)'
<1>1. v.object.state \in States
  BY DEF EndpointsEvents, Endpoints
<1> QED
  BY <1>1 DEF Begin, Orderly, States

LEMMA LoopOrderly ==
    ASSUME TypeOK, Agrees, Reached, Orderly(lbaas), Loop
    PROVE  Orderly(lbaas)'
<1>0. lbaas \in States
  BY DEF TypeOK, LbTypes
<1>1. CASE RemoveUnusedMembers \/ SyncLoadBalancer
  BY <1>0, <1>1 DEF RemoveUnusedMembers, SyncLoadBalancer, Orderly, States
<1>2. CASE RemoveUnusedPools \/ RemoveUnusedListeners
  BY <1>0, <1>2 DEF RemoveUnusedPools, RemoveUnusedListeners, UnusedPools, UnusedListeners,
                    Orderly, States
<1>3. CASE AddNewListeners \/ AddNewPools
  BY <1>0, <1>3 DEF AddNewListeners, AddNewPools, MissingPools, Orderly, States
<1>4. CASE AddNewMembers
  <2>1. lbPc = "add_members"
    BY <1>4 DEF AddNewMembers, Step
  <2>2. {m.pool : m \in MissingMembers} \subseteq lbaas.pools
    BY <2>1, MembersFound DEF TypeOK
  <2> QED
    BY <1>0, <1>4, <2>2 DEF AddNewMembers, Orderly, States
<1> QED
  BY <1>1, <1>2, <1>3, <1>4 DEF Loop

LEMMA OrderlyStep ==
    ASSUME TypeOK, Agrees, Reached, StatesOrderly, [Next]_vars
    PROVE  StatesOrderly'
<1>0. /\ Annotations /\ Orderly(lbaas) /\ Orderly(event.object.state) /\ Orderly(NoState)
      /\ NoEvent.object.state = NoState
      /\ epInbox \in Seq(EndpointsEvents) /\ event \in EndpointsEvents /\ ep \in Endpoints
      /\ lbaas \in States
  BY Empty DEF StatesOrderly, TypeOK, ObjectTypes, EpTypes, LbTypes
<1>1. /\ UNCHANGED <<ep, epInbox>> => Annotations'
      /\ UNCHANGED <<lbaas, event>> => Orderly(lbaas)' /\ Orderly(event.object.state)'
      /\ LbIdle => Orderly(lbaas)' /\ Orderly(event.object.state)'
  BY <1>0 DEF Annotations, Orderly, LbIdle
<1>2. CASE (K8s \/ SpecHandler \/ SpecFails) /\ UNCHANGED lbVars
  BY <1>0, <1>1, <1>2, AnnotationsOfOthers DEF lbVars, StatesOrderly
<1>3. ASSUME NEW k \in 1..Len(epInbox), TakeEndpoints(k)
      PROVE  StatesOrderly'
  <2>1. /\ epInbox' = SubSeq(epInbox, k + 1, Len(epInbox)) /\ ep' = ep
        /\ LbIdle \/ (Begin(epInbox[k]) /\ event' = epInbox[k])
    BY <1>3 DEF TakeEndpoints, Drop
  <2>2. epInbox[k] \in EndpointsEvents /\ Orderly(epInbox[k].object.state)
    BY <1>0 DEF Annotations
  <2>3. Annotations'
    <3>1. \A i \in 1..Len(epInbox') : \E j \in 1..Len(epInbox) : epInbox'[i] = epInbox[j]
      BY <1>0, <2>1, Skipped
    <3> QED
      BY <1>0, <2>1, <3>1 DEF Annotations, Orderly
  <2>4. CASE Begin(epInbox[k]) /\ event' = epInbox[k]
    <3>1. Orderly(lbaas)'
      BY <2>2, <2>4, BeginOrderly
    <3>2. Orderly(event.object.state)'
      BY <2>2, <2>4 DEF Orderly
    <3> QED
      BY <2>3, <3>1, <3>2 DEF StatesOrderly
  <2> QED
    BY <1>1, <2>1, <2>3, <2>4 DEF StatesOrderly
<1>4. CASE Loop
  <2>1. UNCHANGED <<ep, epInbox, event>>
    BY <1>4 DEF Loop, RemoveUnusedMembers, RemoveUnusedPools, RemoveUnusedListeners,
                SyncLoadBalancer, AddNewListeners, AddNewPools, AddNewMembers, Step
  <2>2. Orderly(lbaas)' /\ Orderly(event.object.state)'
    BY <1>0, <1>4, <2>1, LoopOrderly DEF Orderly
  <2> QED
    BY <1>1, <2>1, <2>2 DEF StatesOrderly
<1>5. CASE AnnotateState
  <2>1. Orderly(lbaas)' /\ Orderly(event.object.state)'
    BY <1>0, <1>5 DEF AnnotateState, Orderly
  <2>2. CASE UNCHANGED <<ep, epInbox>>
    BY <1>1, <2>1, <2>2 DEF StatesOrderly
  <2>3. CASE StoreEndpoints([ep EXCEPT !.state = lbaas])
    <3>1. PICK e : e = [ep EXCEPT !.state = lbaas]
      OBVIOUS
    <3>2. e \in Endpoints /\ e.state = lbaas
      BY <1>0, <3>1 DEF Endpoints
    <3>3. EndpointsEvent(FALSE, e) \in EndpointsEvents /\ EndpointsEvent(FALSE, e).object = e
      BY <3>2 DEF EndpointsEvent, EndpointsEvents
    <3>4. Annotations'
      BY <1>0, <2>3, <3>1, <3>2, <3>3, OneMore DEF StoreEndpoints
    <3> QED
      BY <2>1, <3>4 DEF StatesOrderly
  <2> QED
    BY <1>5, <2>2, <2>3 DEF AnnotateState
<1>6. CASE RetryState
  BY <1>1, <1>6 DEF RetryState, lbVars, StatesOrderly
<1>7. CASE \/ NothingToAnnotate \/ StateDiffers \/ NotFound \/ PortUnknown
           \/ ReleaseGivesUp \/ Fails
  BY <1>1, <1>7 DEF NothingToAnnotate, StateDiffers, NotFound, PortUnknown, ReleaseGivesUp,
                    Fails, Drop, StatesOrderly
<1>8. CASE NotReady
  <2>1. Orderly(lbaas)' /\ Orderly(event.object.state)'
    BY <1>0, <1>8, BeginOrderly DEF NotReady, Orderly
  <2> QED
    BY <1>1, <1>8, <2>1 DEF NotReady, StatesOrderly
<1>9. CASE Restart
  <2>1. /\ ep' = ep /\ LbIdle
        /\ epInbox' = IF ep.exists THEN <<EndpointsEvent(FALSE, ep)>> ELSE <<>>
    BY <1>9 DEF Restart
  <2>2. \A i \in 1..Len(epInbox') : epInbox'[i].object = ep
    BY <2>1 DEF EndpointsEvent
  <2>3. Annotations'
    BY <1>0, <2>1, <2>2 DEF Annotations, Orderly
  <2> QED
    BY <1>1, <2>1, <2>3 DEF StatesOrderly
<1>10. CASE UNCHANGED vars
  BY <1>1, <1>10 DEF vars, objectVars, epVars, lbVars, StatesOrderly
<1> QED
  BY <1>2, <1>3, <1>4, <1>5, <1>6, <1>7, <1>8, <1>9, <1>10
     DEF Next, SpecThread, LbThread, LbHandler, Loop

-----------------------------------------------------------------------------
(* What is done by the time members are added.                              *)

LEMMA AgreesStep ==
    ASSUME Agrees, [Next]_vars
    PROVE  Agrees'
<1>1. UNCHANGED <<lbPc, event>> => Agrees'
  BY DEF Agrees
<1>2. event' = event /\ lbPc # "idle" => Agrees'
  BY DEF Agrees
<1>3. lbPc' = "idle" => Agrees'
  BY DEF Agrees
<1>4. ASSUME NEW k \in 1..Len(epInbox), TakeEndpoints(k)
      PROVE  Agrees'
  <2>1. CASE LbIdle
    BY <1>3, <2>1 DEF LbIdle
  <2>2. CASE ~LbIdle
    BY <1>4, <2>2 DEF TakeEndpoints, Drop, ShouldIgnore, Agrees
  <2> QED
    BY <2>1, <2>2
<1>5. CASE Loop
  BY <1>2, <1>5 DEF Loop, RemoveUnusedMembers, RemoveUnusedPools, RemoveUnusedListeners,
        SyncLoadBalancer, AddNewListeners, AddNewPools, AddNewMembers, Step
<1>6. CASE Ends \/ Fails \/ Restart
  BY <1>1, <1>3, <1>6 DEF Ends, NothingToAnnotate, AnnotateState, RetryState, StateDiffers,
        NotFound, PortUnknown, ReleaseGivesUp, Fails, Restart, Drop, LbIdle, lbVars
<1>7. CASE NotReady
  <2>1. lbPc # "idle" /\ event' = event
    BY <1>7 DEF NotReady, Partly
  <2> QED
    BY <1>2, <2>1
<1>8. CASE UNCHANGED lbVars
  BY <1>1, <1>8 DEF lbVars
<1> QED
  BY <1>4, <1>5, <1>6, <1>7, <1>8
     DEF Next, SpecThread, LbThread, LbHandler, Loop, Ends, vars

LEMMA ReachedStep ==
    ASSUME TypeOK, Reached, [Next]_vars
    PROVE  Reached'
<1>0. lbaas \in States
  BY DEF TypeOK, LbTypes
<1>1. UNCHANGED lbVars => Reached'
  BY DEF lbVars, Reached, Spec_ports
<1>2. lbPc' \notin {"add_pools", "add_members"} => Reached'
  BY DEF Reached
<1>3. CASE AddNewListeners
  <2>1. /\ lbPc' = "add_pools" /\ Spec_ports' = Spec_ports /\ IdsLeft(MissingPorts)
        /\ lbaas'.listeners = lbaas.listeners \cup EnsuredListeners(MissingPorts)
    BY <1>0, <1>3 DEF AddNewListeners, Step, Spec_ports, States
  <2>2. ASSUME NEW p \in Spec_ports
        PROVE  p.port \in {l.port : l \in lbaas'.listeners}
    <3>1. CASE p.port \in MissingPorts
      BY <2>1, <3>1, PortsEnsured
    <3>2. CASE p.port \notin MissingPorts
      BY <2>1, <3>2 DEF MissingPorts
    <3> QED
      BY <3>1, <3>2
  <2> QED
    BY <2>1, <2>2 DEF Reached
<1>4. CASE AddNewPools
  <2>1. /\ lbPc = "add_pools" /\ lbPc' = "add_members" /\ Spec_ports' = Spec_ports
        /\ lbaas'.listeners = lbaas.listeners
        /\ lbaas'.pools = lbaas.pools \cup MissingPools
    BY <1>0, <1>4 DEF AddNewPools, Step, Spec_ports, States
  <2>2. lbaas'.listeners \subseteq lbaas'.pools
    BY <2>1 DEF MissingPools
  <2> QED
    BY <2>1, <2>2 DEF Reached
<1>5. ASSUME NEW k \in 1..Len(epInbox), TakeEndpoints(k)
      PROVE  Reached'
  BY <1>2, <1>5 DEF TakeEndpoints, Drop, LbIdle, Begin
<1>6. CASE \/ RemoveUnusedMembers \/ RemoveUnusedPools \/ RemoveUnusedListeners
           \/ SyncLoadBalancer \/ AddNewMembers
  BY <1>2, <1>6 DEF RemoveUnusedMembers, RemoveUnusedPools, RemoveUnusedListeners,
        SyncLoadBalancer, AddNewMembers, Step
<1>7. CASE Ends \/ Retries \/ Restart
  BY <1>1, <1>2, <1>7 DEF Ends, NothingToAnnotate, AnnotateState, RetryState, StateDiffers,
        NotFound, PortUnknown, ReleaseGivesUp, Retries, NotReady, Fails, Restart, Drop,
        LbIdle, Begin
<1>8. CASE UNCHANGED vars
  BY <1>1, <1>8 DEF vars, lbVars
<1> QED
  BY <1>1, <1>3, <1>4, <1>5, <1>6, <1>7, <1>8
     DEF Next, SpecThread, LbThread, LbHandler, Ends, Retries

-----------------------------------------------------------------------------
(* The theorems.                                                            *)

LEMMA InitInv ==
    ASSUME Init
    PROVE  Inv
<1> USE DEF Init, ObjectInit, SpecInit, LbInit
<1>1. EpTypes /\ SvcTypes /\ LifeTypes
  BY Empty DEF EpTypes, SvcTypes, LifeTypes
<1>2. SpecTypes /\ LbTypes
  BY Empty DEF SpecTypes, LbTypes
<1>3. StatesOrderly
  BY Empty DEF StatesOrderly, Annotations
<1>4. Agrees /\ Reached
  BY DEF Agrees, Reached
<1> QED
  BY <1>1, <1>2, <1>3, <1>4 DEF Inv, TypeOK, ObjectTypes

\* The inductive invariant.
THEOREM Inductive == Spec => []Inv
<1>1. Init => Inv
  BY InitInv
<1>2. Inv /\ [Next]_vars => Inv'
  BY TypeStep, OrderlyStep, AgreesStep, ReachedStep DEF Inv
<1> QED
  BY <1>1, <1>2, PTL DEF Spec

\* Every variable keeps its type: above all, the members that
\* _add_new_members makes up of what it looks up are members.
THEOREM TypeCorrect == Spec => []TypeOK
<1>1. Inv => TypeOK
  BY DEF Inv
<1> QED
  BY <1>1, Inductive, PTL

-----------------------------------------------------------------------------
(* A pass: what LoadBalancerHandler makes of an event v.  All of it follows *)
(* from the state v carries and from the listeners that exist.              *)

\* The methods that run once each of the loops is over.
MembersRemoved   == {"remove_pools", "remove_listeners", "loadbalancer",
                     "add_listeners", "add_pools", "add_members", "annotate"}
PoolsRemoved     == MembersRemoved \ {"remove_pools"}
ListenersRemoved == {"loadbalancer", "add_listeners", "add_pools", "add_members", "annotate"}
BalancerSynced   == ListenersRemoved \ {"loadbalancer"}
ListenersAdded   == {"add_pools", "add_members", "annotate"}
PoolsAdded       == {"add_members", "annotate"}

Ports(v) == IF v.deleted THEN {} ELSE v.object.spec
Aims(v)  == v.object.ready \X
              {TargetPort[n] : n \in v.object.names \cap Names(Ports(v))}

\* What is left of the state when the unused is removed.
Kept(v)      == {m \in v.object.state.members : <<m.pod, m.port>> \in Aims(v)}
KeptPools(v) == v.object.state.pools \cap {m.pool : m \in Kept(v)}

\* The ports without a listener then, and the listeners made for them so far,
\* in this pass or in one that was not finished.
Lacking(v)     == {p.port : p \in Ports(v)} \ {l.port : l \in KeptPools(v)}
Gained(v, L)   == {l \in L \ v.object.state.listeners : l.port \in Lacking(v)}
Complete(v, G) == Lacking(v) \subseteq {l.port : l \in G}

\* The members made once every port has a listener (G are those gained).
PoolFor(v, G, name) ==
    CHOOSE l \in KeptPools(v) \cup G : [name |-> name, port |-> l.port] \in Ports(v)
Added(v, G) ==
    IF v.deleted THEN {}
    ELSE {[pool |-> PoolFor(v, G, t[2]), pod |-> t[1], port |-> TargetPort[t[2]]] :
            t \in {t \in v.object.ready \X v.object.names :
                     <<t[1], TargetPort[t[2]]>> \notin {<<m.pod, m.port>> : m \in Kept(v)}}}

Gains == Gained(event, neutron.listeners)

\* lbaas_state at each method.
Mirror(pc, v, s, G) ==
    /\ s.loadbalancer = IF pc \in BalancerSynced THEN ~v.deleted
                        ELSE v.object.state.loadbalancer
    /\ s.listeners = IF pc \in ListenersAdded THEN KeptPools(v) \cup G
                     ELSE IF pc \in ListenersRemoved THEN KeptPools(v)
                     ELSE v.object.state.listeners
    /\ s.pools = IF pc \in PoolsAdded THEN KeptPools(v) \cup G
                 ELSE IF pc \in PoolsRemoved THEN KeptPools(v)
                 ELSE v.object.state.pools
    /\ s.members = IF pc = "annotate" THEN Kept(v) \cup Added(v, G)
                   ELSE IF pc \in MembersRemoved THEN Kept(v)
                   ELSE IF v.deleted THEN {} ELSE v.object.state.members
    /\ pc \in ListenersAdded => Complete(v, G)

\* Nothing was to do so far.
Same(pc, v, G) ==
    /\ pc \in MembersRemoved   => Kept(v) = v.object.state.members
    /\ pc \in PoolsRemoved     => KeptPools(v) = v.object.state.pools
    /\ pc \in ListenersRemoved => KeptPools(v) = v.object.state.listeners
    /\ pc \in BalancerSynced   => v.object.state.loadbalancer
    /\ pc \in ListenersAdded   => Lacking(v) = {}
    /\ pc = "annotate"         => Added(v, G) = {}

\* What was removed from Neutron so far.
Removed(pc, v, n) ==
    /\ pc \in MembersRemoved /\ ~v.deleted =>
         n.members \cap v.object.state.members \subseteq Kept(v)
    /\ pc \in PoolsRemoved =>
         /\ n.pools \cap v.object.state.pools \subseteq KeptPools(v)
         /\ \A m \in n.members : m.pool \in v.object.state.pools => m.pool \in KeptPools(v)
    /\ pc \in ListenersRemoved =>
         n.listeners \cap v.object.state.listeners \subseteq KeptPools(v)
    /\ pc \in BalancerSynced /\ v.deleted /\ v.object.state.loadbalancer => ~n.loadbalancer

Pass(pc, v, s, n, c) ==
    /\ Mirror(pc, v, s, Gained(v, n.listeners))
    /\ ~v.deleted /\ ~c => Same(pc, v, Gained(v, n.listeners))
    /\ Removed(pc, v, n)

Passing == IF lbPc = "idle" THEN event = NoEvent
           ELSE Pass(lbPc, event, lbaas, neutron, changed)

-----------------------------------------------------------------------------
(* Where what exists is recorded.                                           *)

Memory == Annotated \cup (IF event.deleted THEN {event.object.state} ELSE {})

\* What exists is in a state of M, or made by the pass over v.
Tracked(M, v, n, busy) ==
    /\ n.loadbalancer => \/ \E s \in M : s.loadbalancer
                         \/ busy /\ ~v.deleted /\ ~v.object.state.loadbalancer
    /\ \A l \in n.listeners : (\E s \in M : l \in s.listeners) \/ l \in Gained(v, n.listeners)
    /\ \A l \in n.pools     : (\E s \in M : l \in s.pools) \/ l \in Gained(v, n.listeners)
    /\ \A m \in n.members   : \/ \E s \in M : m \in s.members
                              \/ /\ Complete(v, Gained(v, n.listeners))
                                 /\ m \in Added(v, Gained(v, n.listeners))

AllTracked == ~lapsed => Tracked(Memory, event, neutron, lbPc # "idle")

\* The endpoints that have not changed since the event have its state, or one
\* that the 409 of the annotation showed to be fit to overwrite.
Fresh == lbPc # "idle" /\ ~event.deleted /\ ~epNewer =>
           \/ ep.state = event.object.state /\ epInbox = <<>>
           \/ lbPc = "annotate" /\ ep.state \in {NoState, lbaas}

\* The last event carries the state of the endpoints.
Latest == epInbox # <<>> /\ ~epInbox[Len(epInbox)].deleted =>
            epInbox[Len(epInbox)].object.state = ep.state

Absent == ~ep.exists => ep.state = NoState

-----------------------------------------------------------------------------
(* A pass, step by step.                                                    *)

\* A deleted service has nothing to keep and lacks nothing.
LEMMA DeletedPass ==
    ASSUME NEW v, v.deleted
    PROVE  /\ Kept(v) = {} /\ KeptPools(v) = {} /\ Lacking(v) = {}
           /\ \A L : Gained(v, L) = {}
           /\ \A G : Added(v, G) = {}
<1>1. Ports(v) = {}
  BY DEF Ports
<1>2. Names({}) = {}
  BY DEF Names
<1>3. Kept(v) = {}
  BY <1>1, <1>2 DEF Kept, Aims
<1>4. Lacking(v) = {} /\ KeptPools(v) = {}
  BY <1>1, <1>3 DEF Lacking, KeptPools
<1> QED
  BY <1>3, <1>4 DEF Gained, Added

\* Without an event nothing is made.
LEMMA NoPass ==
    /\ \A L : Gained(NoEvent, L) = {}
    /\ \A G : Added(NoEvent, G) = {}
<1>1. NoEvent.object.spec = {} /\ NoEvent.object.ready = {} /\ ~NoEvent.deleted
  BY DEF NoEvent, EndpointsEvent, NoEndpoints
<1>2. Lacking(NoEvent) = {}
  BY <1>1 DEF Lacking, Ports
<1>3. ASSUME NEW G
      PROVE  Added(NoEvent, G) = {}
  BY <1>1 DEF Added
<1> QED
  BY <1>2, <1>3 DEF Gained

\* What is kept was there.
LEMMA KeptIsOld ==
    ASSUME NEW v \in EndpointsEvents, Orderly(v.object.state)
    PROVE  /\ Kept(v) \subseteq v.object.state.members
           /\ KeptPools(v) \subseteq v.object.state.pools
           /\ KeptPools(v) \subseteq v.object.state.listeners
           /\ {m.pool : m \in Kept(v)} = KeptPools(v)
           /\ \A L : Gained(v, L) \cap v.object.state.listeners = {}
           /\ \A L : Gained(v, L) \subseteq L
<1>1. Kept(v) \subseteq v.object.state.members
  BY DEF Kept
<1>2. KeptPools(v) \subseteq v.object.state.pools
  BY DEF KeptPools
<1>3. {m.pool : m \in Kept(v)} \subseteq v.object.state.pools
  BY <1>1 DEF Orderly
<1>4. {m.pool : m \in Kept(v)} = KeptPools(v)
  BY <1>3 DEF KeptPools
<1>5. KeptPools(v) \subseteq v.object.state.listeners
  BY <1>2 DEF Orderly
<1>6. ASSUME NEW L
      PROVE  Gained(v, L) \cap v.object.state.listeners = {} /\ Gained(v, L) \subseteq L
  BY DEF Gained
<1> QED
  BY <1>1, <1>2, <1>4, <1>5, <1>6

\* The members that are made are on target, in pools that are kept or gained.
LEMMA AddedOnTarget ==
    ASSUME NEW v \in EndpointsEvents, NEW G,
           ~v.deleted => v.object.names = Names(v.object.spec),
           Complete(v, G), NEW m \in Added(v, G)
    PROVE  /\ <<m.pod, m.port>> \in Aims(v)
           /\ m.pool \in KeptPools(v) \cup G
<1>1. ~v.deleted /\ Ports(v) = v.object.spec
  BY DEF Added, Ports
<1>2. PICK t \in v.object.ready \X v.object.names :
        m = [pool |-> PoolFor(v, G, t[2]), pod |-> t[1], port |-> TargetPort[t[2]]]
  BY <1>1 DEF Added
<1>3. t[1] \in v.object.ready /\ t[2] \in v.object.names
  BY <1>2
<1>4. t[2] \in v.object.names \cap Names(Ports(v))
  BY <1>1, <1>3
<1>5. <<m.pod, m.port>> \in Aims(v)
  BY <1>2, <1>3, <1>4 DEF Aims
<1>6. PICK p \in Ports(v) : p.name = t[2]
  BY <1>4 DEF Names
<1>7. PICK l \in KeptPools(v) \cup G : l.port = p.port
  BY <1>6 DEF Complete, Lacking
<1>8. p = [name |-> p.name, port |-> p.port]
  BY <1>1, <1>6, PortSpecsAssumption DEF EndpointsEvents, Endpoints
<1>9. [name |-> t[2], port |-> l.port] \in Ports(v)
  BY <1>6, <1>7, <1>8
<1>10. PoolFor(v, G, t[2]) \in KeptPools(v) \cup G
  BY <1>9 DEF PoolFor
<1> QED
  BY <1>2, <1>5, <1>10

\* What each loop has to do, and what it makes of lbaas_state.
LEMMA ToDo ==
    ASSUME TypeOK, Agrees, Orderly(event.object.state), lbPc # "idle",
           Mirror(lbPc, event, lbaas, Gains), Removed(lbPc, event, neutron)
    PROVE  /\ lbPc = "remove_members" =>
                UnusedMembers = (IF event.deleted THEN {} ELSE event.object.state.members) \ Kept(event)
           /\ lbPc = "remove_pools" => UnusedPools = event.object.state.pools \ KeptPools(event)
           /\ lbPc = "remove_listeners" =>
                UnusedListeners = event.object.state.listeners \ KeptPools(event)
           /\ lbPc = "add_listeners" => MissingPorts = Lacking(event)
           /\ lbPc = "add_pools" => MissingPools = Gains
           /\ lbPc = "add_members" => MissingMembers = Added(event, Gains)
<1> USE DEF MembersRemoved, PoolsRemoved, ListenersRemoved, BalancerSynced, ListenersAdded,
            PoolsAdded
<1>0. event \in EndpointsEvents
  BY DEF TypeOK, LbTypes
<1>1. Targets = Aims(event) /\ Spec_ports = Ports(event)
  BY DEF Targets, Aims, Spec_ports, Ports
<1>2. CASE lbPc = "remove_members"
  <2>1. lbaas.members = IF event.deleted THEN {} ELSE event.object.state.members
    BY <1>2 DEF Mirror
  <2>2. UnusedMembers = lbaas.members \ Kept(event)
    BY <1>1, <2>1 DEF UnusedMembers, Kept
  <2> QED
    BY <1>2, <2>1, <2>2
<1>3. CASE lbPc = "remove_pools"
  <2>1. lbaas.members = Kept(event) /\ lbaas.pools = event.object.state.pools
    BY <1>3 DEF Mirror
  <2> QED
    BY <1>3, <2>1 DEF UnusedPools, KeptPools
<1>4. CASE lbPc = "remove_listeners"
  <2>1. lbaas.listeners = event.object.state.listeners /\ lbaas.pools = KeptPools(event)
    BY <1>4 DEF Mirror
  <2> QED
    BY <1>4, <2>1 DEF UnusedListeners
<1>5. CASE lbPc = "add_listeners"
  <2>1. lbaas.listeners = KeptPools(event)
    BY <1>5 DEF Mirror
  <2> QED
    BY <1>1, <1>5, <2>1 DEF MissingPorts, Lacking
<1>6. CASE lbPc = "add_pools"
  <2>1. lbaas.listeners = KeptPools(event) \cup Gains /\ lbaas.pools = KeptPools(event)
    BY <1>6 DEF Mirror
  <2>2. Gains \cap KeptPools(event) = {}
    BY <1>0, KeptIsOld DEF Gains
  <2> QED
    BY <1>6, <2>1, <2>2 DEF MissingPools
<1>7. CASE lbPc = "add_members"
  <2>1. lbaas.members = Kept(event) /\ lbaas.pools = KeptPools(event) \cup Gains
    BY <1>7 DEF Mirror
  <2>2. Current = {<<m.pod, m.port>> : m \in Kept(event)}
    BY <2>1 DEF Current
  <2>3. ASSUME NEW n
        PROVE  PoolOf(n) = PoolFor(event, Gains, n)
    BY <1>1, <2>1 DEF PoolOf, PoolFor
  <2>4. CASE event.deleted
    BY <1>7, <2>4, Unknown DEF Added
  <2>5. CASE ~event.deleted
    <3>1. UnknownTargets = {}
      BY <1>7, <2>5, Unknown
    <3>2. MissingMembers =
             {[pool |-> PoolOf(t[2]), pod |-> t[1], port |-> TargetPort[t[2]]] :
                 t \in MissingTargets}
      BY <3>1 DEF MissingMembers
    <3> QED
      BY <1>7, <2>2, <2>3, <2>5, <3>2 DEF MissingTargets, Added
  <2> QED
    BY <2>4, <2>5
<1> QED
  BY <1>2, <1>3, <1>4, <1>5, <1>6, <1>7

\* What a step of the pass over v may do to what exists, from n to m.
Moves(v, n, m) ==
    /\ m.loadbalancer => n.loadbalancer \/ (~v.deleted /\ ~v.object.state.loadbalancer)
    /\ n.listeners \ v.object.state.listeners \subseteq m.listeners
    /\ \A l \in m.listeners \ n.listeners :
          /\ l \notin v.object.state.listeners /\ l.port \in Lacking(v)
          /\ l.port \notin {k.port : k \in n.listeners}
    /\ m.pools \subseteq n.pools \cup Gained(v, n.listeners)
    /\ \A x \in m.members \ n.members :
          Complete(v, Gained(v, n.listeners)) /\ x \in Added(v, Gained(v, n.listeners))

LEMMA EnsuredPorts ==
    ASSUME NEW P, IdsLeft(P), NEW l \in EnsuredListeners(P)
    PROVE  l.port \in P
<1>1. \A p \in NewPorts(P) : NewListener(p).port = p
  BY DEF IdsLeft, NewListener
<1> QED
  BY <1>1 DEF EnsuredListeners, NewPorts

\* A new listener is not in the state the pass began with.
LEMMA NewIsNew ==
    ASSUME TypeOK, NEW P, IdsLeft(P)
    PROVE  \A l \in EnsuredListeners(P) \ neutron.listeners :
              /\ l \notin event.object.state.listeners /\ l.port \in P
              /\ l.port \notin {k.port : k \in neutron.listeners}
<1> SUFFICES ASSUME NEW p \in NewPorts(P)
             PROVE  /\ NewListener(p) \notin event.object.state.listeners
                    /\ NewListener(p).port = p
                    /\ p \in P /\ p \notin {k.port : k \in neutron.listeners}
  BY DEF EnsuredListeners
<1>1. NewListener(p).port = p /\ NewListener(p) \notin Known
  BY DEF IdsLeft, NewListener
<1>2. event.object.state.listeners \subseteq Known
  BY DEF Known
<1> QED
  BY <1>1, <1>2 DEF NewPorts

LEMMA PartlyMoves ==
    ASSUME TypeOK, Agrees, Orderly(event.object.state), lbPc # "idle",
           Mirror(lbPc, event, lbaas, Gains), Removed(lbPc, event, neutron), Partly
    PROVE  Moves(event, neutron, neutron')
<1>0. /\ neutron \in States /\ event \in EndpointsEvents /\ event.object.state \in States
      /\ Gains = Gained(event, neutron.listeners)
  BY DEF TypeOK, LbTypes, EndpointsEvents, Endpoints, Gains
<1>1. CASE lbPc = "remove_members" /\ \E M \in SUBSET UnusedMembers : neutron' = ReleaseMembers(M)
  BY <1>0, <1>1 DEF ReleaseMembers, Moves, States
<1>2. CASE lbPc = "remove_pools" /\ \E L \in SUBSET UnusedPools : neutron' = ReleasePools(L)
  BY <1>0, <1>2 DEF ReleasePools, Moves, States
<1>3. ASSUME lbPc = "remove_listeners", NEW L \in SUBSET UnusedListeners,
             neutron' = ReleaseListeners(L)
      PROVE  Moves(event, neutron, neutron')
  <2>1. L \subseteq event.object.state.listeners
    BY <1>3, ToDo
  <2> QED
    BY <1>0, <1>3, <2>1 DEF ReleaseListeners, Moves, States
<1>4. CASE UNCHANGED neutron
  BY <1>4 DEF Moves
<1>4a. CASE /\ lbPc = "loadbalancer" /\ lbaas.loadbalancer = event.deleted
           /\ neutron' = [neutron EXCEPT !.loadbalancer = ~event.deleted]
  <2>1. lbaas.loadbalancer = event.object.state.loadbalancer
    BY <1>4a DEF Mirror, BalancerSynced, ListenersRemoved
  <2>2. event.deleted \in BOOLEAN
    BY <1>0 DEF EndpointsEvents
  <2> QED
    BY <1>0, <1>4a, <2>1, <2>2 DEF Moves, States
<1>5. ASSUME lbPc = "add_listeners", NEW P \in SUBSET MissingPorts, IdsLeft(P),
             neutron' = EnsureListeners(P)
      PROVE  Moves(event, neutron, neutron')
  <2>1. P \subseteq Lacking(event)
    BY <1>5, ToDo
  <2>2. \A l \in EnsuredListeners(P) \ neutron.listeners :
           /\ l \notin event.object.state.listeners /\ l.port \in P
           /\ l.port \notin {k.port : k \in neutron.listeners}
    BY <1>5, NewIsNew
  <2> QED
    BY <1>0, <1>5, <2>1, <2>2 DEF EnsureListeners, Moves, States
<1>6. ASSUME lbPc = "add_pools", NEW L \in SUBSET MissingPools, neutron' = EnsurePools(L)
      PROVE  Moves(event, neutron, neutron')
  <2>1. L \subseteq Gains
    BY <1>6, ToDo
  <2> QED
    BY <1>0, <1>6, <2>1 DEF EnsurePools, Moves, States
<1>7. ASSUME lbPc = "add_members", NEW M \in SUBSET MissingMembers, neutron' = EnsureMembers(M)
      PROVE  Moves(event, neutron, neutron')
  <2>1. M \subseteq Added(event, Gains) /\ Complete(event, Gains)
    BY <1>7, ToDo DEF Mirror, ListenersAdded
  <2> QED
    BY <1>0, <1>7, <2>1 DEF EnsureMembers, Moves, States
<1>8. ASSUME NEW M \in SUBSET {m \in MissingMembers : m.pool \in neutron.pools}
      PROVE  M \in SUBSET MissingMembers
  OBVIOUS
<1> QED
  BY <1>1, <1>2, <1>3, <1>4, <1>4a, <1>5, <1>6, <1>7, <1>8 DEF Partly

\* A loop that ends has done all that one that fails may have done.
LEMMA LoopIsPartly ==
    ASSUME TypeOK, Agrees, Reached, Loop
    PROVE  Partly
<1>0. event.deleted \in BOOLEAN /\ lbaas.loadbalancer \in BOOLEAN
  BY DEF TypeOK, LbTypes, EndpointsEvents, States
<1>1. CASE RemoveUnusedMembers \/ RemoveUnusedPools \/ RemoveUnusedListeners
  BY <1>1 DEF RemoveUnusedMembers, RemoveUnusedPools, RemoveUnusedListeners, Step, Partly
<1>2. CASE SyncLoadBalancer
  BY <1>0, <1>2 DEF SyncLoadBalancer, Step, Partly
<1>3. CASE AddNewListeners \/ AddNewPools
  BY <1>3 DEF AddNewListeners, AddNewPools, Step, Partly
<1>4. CASE AddNewMembers
  <2>1. MissingMembers \in SUBSET {m \in MissingMembers : m.pool \in neutron.pools}
    BY <1>4 DEF AddNewMembers
  <2> QED
    BY <1>4, <2>1 DEF AddNewMembers, Step, Partly
<1> QED
  BY <1>1, <1>2, <1>3, <1>4 DEF Loop

\* Nothing that was gained is lost, and once every port has a listener there
\* is nothing more to gain.
LEMMA MovesGains ==
    ASSUME NEW v \in EndpointsEvents, NEW n, NEW m, Moves(v, n, m)
    PROVE  /\ Gained(v, n.listeners) \subseteq Gained(v, m.listeners)
           /\ Complete(v, Gained(v, n.listeners)) =>
                Gained(v, m.listeners) = Gained(v, n.listeners)
<1>1. Gained(v, n.listeners) \subseteq Gained(v, m.listeners)
  BY DEF Gained, Moves
<1>2. ASSUME Complete(v, Gained(v, n.listeners)), NEW l \in Gained(v, m.listeners)
      PROVE  l \in Gained(v, n.listeners)
  <2>1. /\ l \in m.listeners /\ l \notin v.object.state.listeners /\ l.port \in Lacking(v)
    BY DEF Gained
  <2>2. PICK k \in Gained(v, n.listeners) : k.port = l.port
    BY <1>2, <2>1 DEF Complete
  <2>3. k \in n.listeners
    BY <2>2 DEF Gained
  <2>4. l \in n.listeners
    BY <2>1, <2>2, <2>3 DEF Moves
  <2> QED
    BY <2>1, <2>4 DEF Gained
<1> QED
  BY <1>1, <1>2

\* What exists stays tracked.
LEMMA TrackedMoves ==
    ASSUME NEW M, NEW v \in EndpointsEvents, NEW n, NEW m, Moves(v, n, m),
           Tracked(M, v, n, TRUE)
    PROVE  Tracked(M, v, m, TRUE)
<1> DEFINE G == Gained(v, n.listeners)
           H == Gained(v, m.listeners)
<1>1. G \subseteq H /\ (Complete(v, G) => H = G)
  BY MovesGains
<1> HIDE DEF G, H
<1>2. m.loadbalancer => (\E s \in M : s.loadbalancer) \/ (~v.deleted /\ ~v.object.state.loadbalancer)
  BY DEF Moves, Tracked
<1>3. ASSUME NEW l \in m.listeners
      PROVE  (\E s \in M : l \in s.listeners) \/ l \in H
  <2>1. CASE l \in n.listeners
    BY <1>1, <2>1 DEF Tracked, G
  <2>2. CASE l \notin n.listeners
    BY <2>2 DEF Moves, H, Gained
  <2> QED
    BY <2>1, <2>2
<1>4. ASSUME NEW l \in m.pools
      PROVE  (\E s \in M : l \in s.pools) \/ l \in H
  BY <1>1 DEF Tracked, Moves, G
<1>5. ASSUME NEW x \in m.members
      PROVE  (\E s \in M : x \in s.members) \/ (Complete(v, H) /\ x \in Added(v, H))
  BY <1>1 DEF Tracked, Moves, G
<1> QED
  BY <1>2, <1>3, <1>4, <1>5 DEF Tracked, H

\* What was removed stays removed.
LEMMA RemovedMoves ==
    ASSUME NEW v \in EndpointsEvents, Orderly(v.object.state),
           ~v.deleted => v.object.names = Names(v.object.spec),
           NEW n, NEW m, Moves(v, n, m), NEW pc, Removed(pc, v, n)
    PROVE  Removed(pc, v, m)
<1> DEFINE G == Gained(v, n.listeners)
<1>0. /\ KeptPools(v) \subseteq v.object.state.pools
      /\ v.object.state.pools \subseteq v.object.state.listeners
      /\ G \cap v.object.state.listeners = {}
  BY KeptIsOld DEF Orderly
<1>1. ASSUME NEW x \in m.members \ n.members
      PROVE  /\ x \in v.object.state.members => x \in Kept(v)
             /\ x.pool \in v.object.state.pools => x.pool \in KeptPools(v)
  <2>1. Complete(v, G) /\ x \in Added(v, G)
    BY DEF Moves
  <2>2. <<x.pod, x.port>> \in Aims(v) /\ x.pool \in KeptPools(v) \cup G
    BY <2>1, AddedOnTarget
  <2> QED
    BY <1>0, <2>2 DEF Kept
<1>2. \A l \in m.pools \ n.pools : l \notin v.object.state.pools
  BY <1>0 DEF Moves
<1>3. \A l \in m.listeners \ n.listeners : l \notin v.object.state.listeners
  BY DEF Moves
<1>4. v.deleted => (m.loadbalancer => n.loadbalancer)
  BY DEF Moves
<1> QED
  BY <1>1, <1>2, <1>3, <1>4 DEF Removed

LEMMA LoopPass ==
    ASSUME Inv, lbPc # "idle", Pass(lbPc, event, lbaas, neutron, changed), Loop
    PROVE  /\ Moves(event, neutron, neutron')
           /\ Pass(lbPc', event, lbaas', neutron', changed')
<1> DEFINE s == event.object.state
           H == Gained(event, neutron'.listeners)
<1>0. /\ TypeOK /\ Agrees /\ Reached /\ Orderly(s)
      /\ lbaas \in States /\ neutron \in States /\ event \in EndpointsEvents
      /\ event.deleted \in BOOLEAN /\ changed \in BOOLEAN /\ s \in States
  BY DEF Inv, TypeOK, LbTypes, StatesOrderly, EndpointsEvents, Endpoints
<1>1. /\ Mirror(lbPc, event, lbaas, Gains) /\ Removed(lbPc, event, neutron)
      /\ ~event.deleted /\ ~changed => Same(lbPc, event, Gains)
  BY DEF Pass, Gains
<1>2. Moves(event, neutron, neutron')
  BY <1>0, <1>1, LoopIsPartly, PartlyMoves
<1>3. /\ Gains \subseteq H
      /\ Complete(event, Gains) => H = Gains
  BY <1>0, <1>2, MovesGains DEF Gains
<1>4. Removed(lbPc, event, neutron')
  BY <1>0, <1>1, <1>2, RemovedMoves DEF Agrees
<1>5. /\ Kept(event) \subseteq s.members
      /\ KeptPools(event) \subseteq s.pools /\ KeptPools(event) \subseteq s.listeners
      /\ {m.pool : m \in Kept(event)} = KeptPools(event)
  BY <1>0, KeptIsOld
<1>6. event.deleted => Kept(event) = {} /\ KeptPools(event) = {}
  BY DeletedPass
<1> USE DEF MembersRemoved, PoolsRemoved, ListenersRemoved, BalancerSynced, ListenersAdded,
            PoolsAdded
<1> HIDE DEF H
<1> SUFFICES /\ Mirror(lbPc', event, lbaas', H)
             /\ ~event.deleted /\ ~changed' => Same(lbPc', event, H)
             /\ Removed(lbPc', event, neutron')
  BY <1>2 DEF Pass, H
<1>7. CASE RemoveUnusedMembers
  <2>1. /\ lbPc = "remove_members" /\ lbPc' = "remove_pools"
        /\ changed' = (changed \/ UnusedMembers # {})
        /\ UnusedMembers = (IF event.deleted THEN {} ELSE s.members) \ Kept(event)
    BY <1>0, <1>1, <1>7, ToDo DEF RemoveUnusedMembers, Step
  <2>2. /\ lbaas' = [lbaas EXCEPT !.members = @ \ UnusedMembers]
        /\ neutron'.members = neutron.members \ UnusedMembers
    BY <1>0, <1>7 DEF RemoveUnusedMembers, ReleaseMembers, States
  <2>3. Mirror(lbPc', event, lbaas', H)
    BY <1>0, <1>1, <1>5, <1>6, <2>1, <2>2 DEF Mirror, States
  <2>4. ~event.deleted /\ ~changed' => Same(lbPc', event, H)
    BY <1>5, <2>1 DEF Same
  <2>5. Removed(lbPc', event, neutron')
    BY <2>1, <2>2 DEF Removed
  <2> QED
    BY <2>3, <2>4, <2>5
<1>8. CASE RemoveUnusedPools
  <2>1. /\ lbPc = "remove_pools" /\ lbPc' = "remove_listeners"
        /\ changed' = (changed \/ UnusedPools # {})
        /\ UnusedPools = s.pools \ KeptPools(event)
    BY <1>0, <1>1, <1>8, ToDo DEF RemoveUnusedPools, Step
  <2>2. /\ lbaas' = [lbaas EXCEPT !.pools = @ \ UnusedPools]
        /\ neutron'.pools = neutron.pools \ UnusedPools
        /\ \A m \in neutron'.members : m.pool \notin UnusedPools
    BY <1>0, <1>8 DEF RemoveUnusedPools, ReleasePools, States
  <2>3. Mirror(lbPc', event, lbaas', H)
    BY <1>0, <1>1, <1>5, <2>1, <2>2 DEF Mirror, States
  <2>4. ~event.deleted /\ ~changed' => Same(lbPc', event, H)
    BY <1>1, <1>5, <2>1 DEF Same
  <2>5. Removed(lbPc', event, neutron')
    BY <1>4, <2>1, <2>2 DEF Removed
  <2> QED
    BY <2>3, <2>4, <2>5
<1>9. CASE RemoveUnusedListeners
  <2>1. /\ lbPc = "remove_listeners" /\ lbPc' = "loadbalancer"
        /\ changed' = (changed \/ UnusedListeners # {})
        /\ UnusedListeners = s.listeners \ KeptPools(event)
    BY <1>0, <1>1, <1>9, ToDo DEF RemoveUnusedListeners, Step
  <2>2. /\ lbaas' = [lbaas EXCEPT !.listeners = @ \ UnusedListeners]
        /\ neutron'.listeners = neutron.listeners \ UnusedListeners
    BY <1>0, <1>9 DEF RemoveUnusedListeners, ReleaseListeners, States
  <2>3. Mirror(lbPc', event, lbaas', H)
    BY <1>0, <1>1, <1>5, <2>1, <2>2 DEF Mirror, States
  <2>4. ~event.deleted /\ ~changed' => Same(lbPc', event, H)
    BY <1>1, <1>5, <2>1 DEF Same
  <2>5. Removed(lbPc', event, neutron')
    BY <1>4, <2>1, <2>2 DEF Removed
  <2> QED
    BY <2>3, <2>4, <2>5
<1>10. CASE SyncLoadBalancer
  <2>1. /\ lbPc = "loadbalancer" /\ lbPc' = "add_listeners"
        /\ ~changed' => ~changed /\ lbaas.loadbalancer = ~event.deleted
        /\ lbaas' = [lbaas EXCEPT !.loadbalancer = ~event.deleted]
        /\ neutron'.loadbalancer = IF ~event.deleted = lbaas.loadbalancer THEN neutron.loadbalancer
                                   ELSE ~event.deleted
    BY <1>0, <1>10 DEF SyncLoadBalancer, Step, States
  <2>2. lbaas.loadbalancer = s.loadbalancer
    BY <1>1, <2>1 DEF Mirror
  <2>3. Mirror(lbPc', event, lbaas', H)
    BY <1>0, <1>1, <2>1 DEF Mirror, States
  <2>4. ~event.deleted /\ ~changed' => Same(lbPc', event, H)
    BY <1>0, <1>1, <2>1, <2>2 DEF Same
  <2>5. Removed(lbPc', event, neutron')
    BY <1>0, <1>4, <2>1, <2>2 DEF Removed
  <2> QED
    BY <2>3, <2>4, <2>5
<1>11. CASE AddNewListeners
  <2>1. /\ lbPc = "add_listeners" /\ lbPc' = "add_pools"
        /\ changed' = (changed \/ MissingPorts # {}) /\ IdsLeft(MissingPorts)
        /\ MissingPorts = Lacking(event)
    BY <1>0, <1>1, <1>11, ToDo DEF AddNewListeners, Step
  <2>2. /\ lbaas' = [lbaas EXCEPT !.listeners = @ \cup EnsuredListeners(MissingPorts)]
        /\ neutron'.listeners = neutron.listeners \cup EnsuredListeners(MissingPorts)
    BY <1>0, <1>11 DEF AddNewListeners, EnsureListeners, States
  <2>3. ASSUME NEW l \in EnsuredListeners(MissingPorts)
        PROVE  l.port \in Lacking(event) /\ l \notin s.listeners
    <3>1. CASE l \in neutron.listeners
      <4>1. l.port \in MissingPorts
        BY <2>1, EnsuredPorts
      <4>2. l \in s.listeners => l \in KeptPools(event)
        BY <1>1, <2>1, <3>1 DEF Removed
      <4> QED
        BY <2>1, <4>1, <4>2 DEF Lacking
    <3>2. CASE l \notin neutron.listeners
      BY <1>0, <2>1, <3>2, NewIsNew
    <3> QED
      BY <3>1, <3>2
  <2>4. H = EnsuredListeners(MissingPorts) /\ Complete(event, H)
    <3>1. ASSUME NEW l \in neutron'.listeners, l.port \in MissingPorts
          PROVE  l \in EnsuredListeners(MissingPorts)
      BY <2>2, <3>1 DEF EnsuredListeners
    <3>2. H = EnsuredListeners(MissingPorts)
      BY <2>1, <2>2, <2>3, <3>1 DEF H, Gained
    <3>3. \A p \in MissingPorts : \E l \in EnsuredListeners(MissingPorts) : l.port = p
      BY <2>1, PortsEnsured
    <3> QED
      BY <2>1, <3>2, <3>3 DEF Complete
  <2>5. Mirror(lbPc', event, lbaas', H)
    BY <1>0, <1>1, <2>1, <2>2, <2>4 DEF Mirror, States
  <2>6. ~event.deleted /\ ~changed' => Same(lbPc', event, H)
    BY <1>1, <2>1 DEF Same
  <2>7. Removed(lbPc', event, neutron')
    BY <1>4, <2>1 DEF Removed
  <2> QED
    BY <2>5, <2>6, <2>7
<1>12. CASE AddNewPools
  <2>1. /\ lbPc = "add_pools" /\ lbPc' = "add_members"
        /\ changed' = (changed \/ MissingPools # {})
        /\ MissingPools = Gains
        /\ lbaas' = [lbaas EXCEPT !.pools = @ \cup MissingPools]
    BY <1>0, <1>1, <1>12, ToDo DEF AddNewPools, Step
  <2>2. H = Gains
    BY <1>1, <1>3, <2>1 DEF Mirror
  <2>3. Mirror(lbPc', event, lbaas', H)
    BY <1>0, <1>1, <2>1, <2>2 DEF Mirror, States
  <2>4. ~event.deleted /\ ~changed' => Same(lbPc', event, H)
    BY <1>1, <2>1 DEF Same
  <2>5. Removed(lbPc', event, neutron')
    BY <1>4, <2>1 DEF Removed
  <2> QED
    BY <2>3, <2>4, <2>5
<1>13. CASE AddNewMembers
  <2>1. /\ lbPc = "add_members" /\ lbPc' = "annotate"
        /\ changed' = (changed \/ MissingMembers # {})
        /\ MissingMembers = Added(event, Gains)
        /\ lbaas' = [lbaas EXCEPT !.members = @ \cup MissingMembers]
    BY <1>0, <1>1, <1>13, ToDo DEF AddNewMembers, Step
  <2>2. H = Gains
    BY <1>1, <1>3, <2>1 DEF Mirror
  <2>3. Mirror(lbPc', event, lbaas', H)
    BY <1>0, <1>1, <2>1, <2>2 DEF Mirror, States
  <2>4. ~event.deleted /\ ~changed' => Same(lbPc', event, H)
    BY <1>1, <2>1, <2>2 DEF Same
  <2>5. Removed(lbPc', event, neutron')
    BY <1>4, <2>1 DEF Removed
  <2> QED
    BY <2>3, <2>4, <2>5
<1> QED
  BY <1>7, <1>8, <1>9, <1>10, <1>11, <1>12, <1>13 DEF Loop

-----------------------------------------------------------------------------
(* The endpoints and what the handler knows of them.                        *)

\* Everyone but LoadBalancerHandler.
Others == /\ K8s \/ ((SpecHandler \/ SpecFails) /\ UNCHANGED lifeVars)
          /\ UNCHANGED <<lbVars, neutron, lapsed>>

\* Its steps that leave the endpoints alone, and Restart.
Drops == StateDiffers \/ NotFound \/ ReleaseGivesUp \/ Fails

\* An event that ends with nothing to annotate.
Finishes == NothingToAnnotate \/ PortUnknown

LEMMA NextSteps ==
    ASSUME [Next]_vars
    PROVE  \/ Others \/ Restart \/ (\E k \in 1..Len(epInbox) : TakeEndpoints(k))
           \/ Loop \/ NotReady \/ AnnotateState \/ RetryState \/ Finishes
           \/ Drops
           \/ UNCHANGED <<epVars, lbVars, neutron, lapsed>>
BY DEF Next, SpecThread, LbThread, LbHandler, Others, Loop, Drops, Finishes, vars, objectVars

LEMMA FinishIdle ==
    ASSUME Finishes
    PROVE  LbIdle /\ UNCHANGED <<ep, epInbox>>
BY DEF Finishes, NothingToAnnotate, PortUnknown

\* It is a deleted one whose port names nobody knows, or one without changes.
LEMMA FinishFrame ==
    ASSUME TypeOK, Agrees, Finishes
    PROVE  /\ lbPc \in PoolsAdded /\ UNCHANGED <<neutron, lapsed>>
           /\ event.deleted \/ (lbPc = "annotate" /\ ~changed)
<1>1. neutron \in States /\ lapsed \in BOOLEAN /\ event.deleted \in BOOLEAN
  BY DEF TypeOK, LbTypes, EndpointsEvents
<1>2. CASE NothingToAnnotate
  BY <1>2 DEF NothingToAnnotate, PoolsAdded
<1>3. CASE PortUnknown
  <2>1. lbPc = "add_members" /\ UnknownTargets # {} /\ Partly /\ lapsed' = (lapsed \/ ~event.deleted)
    BY <1>3 DEF PortUnknown
  <2>2. event.deleted /\ MissingMembers = {}
    BY <2>1, Unknown
  <2>3. neutron' = EnsureMembers({})
    BY <2>1, <2>2 DEF Partly
  <2>4. neutron' = neutron
    BY <1>1, <2>3 DEF EnsureMembers, States
  <2> QED
    BY <1>1, <2>1, <2>2, <2>4 DEF PoolsAdded
<1> QED
  BY <1>2, <1>3 DEF Finishes

LEMMA DropsIdle ==
    ASSUME Drops
    PROVE  LbIdle /\ UNCHANGED <<ep, epInbox>> /\ lapsed' = TRUE
BY DEF Drops, StateDiffers, NotFound, ReleaseGivesUp, Fails, Drop

LEMMA LoopFrame ==
    ASSUME Loop
    PROVE  /\ lbPc \in Steps /\ lbPc' \in Steps \cup {"annotate"}
           /\ UNCHANGED <<ep, epInbox, epNewer, event, lapsed>>
BY DEF Loop, RemoveUnusedMembers, RemoveUnusedPools, RemoveUnusedListeners,
       SyncLoadBalancer, AddNewListeners, AddNewPools, AddNewMembers, Step, Steps

\* The last event of an inbox.
LEMMA LastAppended ==
    ASSUME NEW S, NEW q \in Seq(S), NEW e \in S
    PROVE  Append(q, e)[Len(Append(q, e))] = e
OBVIOUS

LEMMA LastLeft ==
    ASSUME NEW S, NEW q \in Seq(S), NEW k \in 1..Len(q),
           SubSeq(q, k + 1, Len(q)) # <<>>
    PROVE  /\ q # <<>>
           /\ SubSeq(q, k + 1, Len(q))[Len(SubSeq(q, k + 1, Len(q)))] = q[Len(q)]
<1> DEFINE r == SubSeq(q, k + 1, Len(q))
<1>1. r \in Seq(S) /\ Len(r) = Len(q) - k
  OBVIOUS
<1>2. Len(r) # 0
  BY <1>1
<1>3. Len(r) \in 1..Len(r)
  BY <1>1, <1>2
<1>4. \A i \in 1..Len(r) : r[i] = q[k + i]
  OBVIOUS
<1>5. q # <<>> /\ Len(q) \in Nat /\ k \in Nat /\ k + Len(r) = Len(q)
  BY <1>1
<1> HIDE DEF r
<1>6. r[Len(r)] = q[Len(q)]
  BY <1>3, <1>4, <1>5
<1> QED
  BY <1>5, <1>6 DEF r

\* The endpoints and the state they carry, step by step.
LEMMA EndpointsStep ==
    ASSUME TypeOK, Absent, Latest, [Next]_vars
    PROVE  Absent' /\ Latest'
<1>0. /\ epInbox \in Seq(EndpointsEvents) /\ ep \in Endpoints /\ lbaas \in States
      /\ NoEndpoints.state = NoState
  BY Empty DEF TypeOK, ObjectTypes, EpTypes, LbTypes
<1>1. UNCHANGED <<ep, epInbox>> => Absent' /\ Latest'
  BY DEF Absent, Latest
<1>2. ASSUME NEW e \in Endpoints, StoreEndpoints(e), e.exists
      PROVE  Absent' /\ Latest'
  <2>1. epInbox' = Append(epInbox, EndpointsEvent(FALSE, e)) /\ ep' = e
    BY <1>2 DEF StoreEndpoints
  <2>2. epInbox'[Len(epInbox')] = EndpointsEvent(FALSE, e)
    BY <1>0, <1>2, <2>1, LastAppended DEF EndpointsEvent, EndpointsEvents
  <2>3. EndpointsEvent(FALSE, e).object = e
    BY DEF EndpointsEvent
  <2> QED
    BY <1>2, <2>1, <2>2, <2>3 DEF Absent, Latest
<1>3. CASE DeleteEndpoints
  <2>1. epInbox' = Append(epInbox, EndpointsEvent(TRUE, ep)) /\ ep' = NoEndpoints
    BY <1>3 DEF DeleteEndpoints
  <2>2. epInbox'[Len(epInbox')] = EndpointsEvent(TRUE, ep)
    BY <1>0, <2>1, LastAppended DEF EndpointsEvent, EndpointsEvents
  <2>3. EndpointsEvent(TRUE, ep).deleted
    BY DEF EndpointsEvent
  <2> QED
    BY <1>0, <2>1, <2>2, <2>3 DEF Absent, Latest
<1>4. CASE Others
  <2>1. EpTypes'
    BY <1>4, K8sTypes, SpecHandlerTypes DEF Others, TypeOK, ObjectTypes
  <2>2. \A e : StoreEndpoints(e) => e \in Endpoints
    BY <2>1 DEF StoreEndpoints, EpTypes
  <2> QED
    BY <1>1, <1>2, <1>3, <1>4, <2>2, OthersStep DEF Others, epVars
<1>5. ASSUME NEW k \in 1..Len(epInbox), TakeEndpoints(k)
      PROVE  Absent' /\ Latest'
  <2>1. epInbox' = SubSeq(epInbox, k + 1, Len(epInbox)) /\ ep' = ep
    BY <1>5 DEF TakeEndpoints
  <2>2. epInbox' # <<>> => epInbox'[Len(epInbox')] = epInbox[Len(epInbox)] /\ epInbox # <<>>
    BY <1>0, <2>1, LastLeft
  <2> QED
    BY <2>1, <2>2 DEF Absent, Latest
<1>6. CASE AnnotateState
  <2>1. /\ [ep EXCEPT !.state = lbaas].exists /\ [ep EXCEPT !.state = lbaas] \in Endpoints
        /\ UNCHANGED <<ep, epInbox>> \/ StoreEndpoints([ep EXCEPT !.state = lbaas])
    BY <1>0, <1>6 DEF AnnotateState, Endpoints
  <2> QED
    BY <1>1, <1>2, <2>1
<1>7. CASE Loop \/ NotReady \/ RetryState \/ Finishes \/ Drops
           \/ UNCHANGED <<epVars, lbVars, neutron, lapsed>>
  BY <1>1, <1>7, LoopFrame, DropsIdle, FinishIdle DEF NotReady, RetryState, epVars
<1>8. CASE Restart
  <2>1. ep' = ep /\ epInbox' = IF ep.exists THEN <<EndpointsEvent(FALSE, ep)>> ELSE <<>>
    BY <1>8 DEF Restart
  <2>2. EndpointsEvent(FALSE, ep).object = ep
    BY DEF EndpointsEvent
  <2> QED
    BY <2>1, <2>2 DEF Absent, Latest
<1> QED
  BY <1>4, <1>5, <1>6, <1>7, <1>8, NextSteps

\* An event that is taken, and what is skipped.
LEMMA Taken ==
    ASSUME TypeOK, NEW k \in 1..Len(epInbox), TakeEndpoints(k)
    PROVE  /\ lbPc = "idle" /\ epInbox' = SubSeq(epInbox, k + 1, Len(epInbox))
           /\ UNCHANGED <<ep, neutron>>
           /\ epInbox[k] \in EndpointsEvents
           /\ \/ /\ LbIdle
                 /\ ~lapsed' /\ epInbox[k].deleted => epInbox[k].object.state = NoState
              \/ /\ Begin(epInbox[k]) /\ event' = epInbox[k]
                 /\ epNewer' = (k < Len(epInbox))
                 /\ ShouldIgnore(epInbox[k].object) => epInbox[k].deleted
           /\ ~lapsed' =>
                /\ ~lapsed
                /\ \A i \in 1..(k - 1) :
                      epInbox[i].deleted => epInbox[i].object.state = NoState
<1>0. epInbox \in Seq(EndpointsEvents)
  BY DEF TypeOK, ObjectTypes, EpTypes
<1>1. epInbox[k] \in EndpointsEvents
  BY <1>0
<1> DEFINE v == epInbox[k]
           gone == \E i \in 1..(k - 1) :
                      epInbox[i].deleted /\ epInbox[i].object.state # NoState
           ignored == IF v.deleted THEN v.object.state = NoState ELSE ShouldIgnore(v.object)
<1>2. /\ lbPc = "idle" /\ epInbox' = SubSeq(epInbox, k + 1, Len(epInbox))
      /\ UNCHANGED <<ep, neutron, faults>>
      /\ IF ignored THEN LbIdle /\ lapsed' = (lapsed \/ gone)
         ELSE IF v.deleted /\ NoAddresses(v.object) THEN Drop
         ELSE /\ Begin(v) /\ event' = v /\ epNewer' = (k < Len(epInbox))
              /\ lapsed' = (lapsed \/ gone)
  BY DEF TakeEndpoints
<1>3. ~lapsed' => ~lapsed /\ ~gone
  BY <1>2 DEF Drop
<1> QED
  BY <1>1, <1>2, <1>3 DEF Drop

LEMMA FreshStep ==
    ASSUME TypeOK, Fresh, Latest, [Next]_vars
    PROVE  Fresh'
<1>1. UNCHANGED <<epVars, lbVars>> => Fresh'
  BY DEF Fresh, epVars, lbVars
<1>2. epNewer' = TRUE => Fresh'
  BY DEF Fresh
<1>3. CASE Others
  BY <1>1, <1>2, <1>3, OthersStep DEF Others, DeleteEndpoints, StoreEndpoints
<1>4. ASSUME NEW k \in 1..Len(epInbox), TakeEndpoints(k)
      PROVE  Fresh'
  <2>0. epInbox \in Seq(EndpointsEvents)
    BY DEF TypeOK, ObjectTypes, EpTypes
  <2>1. CASE LbIdle
    BY <1>2, <2>1 DEF LbIdle
  <2>2. CASE event' = epInbox[k] /\ epNewer' = (k < Len(epInbox))
    <3>1. SUFFICES ASSUME ~epInbox[k].deleted, ~(k < Len(epInbox))
                   PROVE  /\ ep.state = epInbox[k].object.state
                          /\ SubSeq(epInbox, k + 1, Len(epInbox)) = <<>>
      BY <1>4, <2>2, Taken DEF Fresh
    <3>2. k = Len(epInbox) /\ epInbox # <<>>
      BY <2>0, <3>1
    <3>3. SubSeq(epInbox, k + 1, Len(epInbox)) = <<>>
      BY <2>0, <3>2
    <3> QED
      BY <3>1, <3>2, <3>3 DEF Latest
  <2> QED
    BY <1>4, <2>1, <2>2, Taken
<1>5. CASE Loop
  BY <1>5, LoopFrame DEF Fresh, Steps
<1>6. CASE NotReady
  BY <1>6 DEF NotReady, Partly, Begin, Fresh
<1>7. CASE AnnotateState
  BY <1>7 DEF AnnotateState, Fresh
<1>8. CASE RetryState
  BY <1>8 DEF RetryState, Annotating, lbVars, Fresh
<1>9. CASE Finishes \/ Drops \/ Restart
  BY <1>2, <1>9, DropsIdle, FinishIdle DEF Restart, LbIdle
<1>10. CASE UNCHANGED <<epVars, lbVars, neutron, lapsed>>
  BY <1>1, <1>10
<1> QED
  BY <1>3, <1>4, <1>5, <1>6, <1>7, <1>8, <1>9, <1>10, NextSteps

\* A new or retried event begins a pass.
LEMMA BeginPass ==
    ASSUME NEW v \in EndpointsEvents, NEW n, Begin(v)
    PROVE  Pass(lbPc', v, lbaas', n, changed')
<1>1. /\ lbPc' = "remove_members"
      /\ lbaas' = IF v.deleted THEN [v.object.state EXCEPT !.members = {}]
                               ELSE v.object.state
  BY DEF Begin
<1>2. v.object.state \in States
  BY DEF EndpointsEvents, Endpoints
<1> QED
  BY <1>1, <1>2 DEF Pass, Mirror, Same, Removed, States, MembersRemoved, PoolsRemoved,
        ListenersRemoved, BalancerSynced, ListenersAdded, PoolsAdded

LEMMA PassingStep ==
    ASSUME Inv, Passing, [Next]_vars
    PROVE  Passing'
<1>0. TypeOK /\ event \in EndpointsEvents
  BY DEF Inv, TypeOK, LbTypes
<1>1. UNCHANGED <<lbVars, neutron>> => Passing'
  BY DEF Passing, lbVars
<1>2. lbPc' = "idle" /\ event' = NoEvent => Passing'
  BY DEF Passing
<1>3. ASSUME NEW k \in 1..Len(epInbox), TakeEndpoints(k)
      PROVE  Passing'
  <2>1. CASE LbIdle
    BY <1>2, <2>1 DEF LbIdle
  <2>2. CASE Begin(epInbox[k]) /\ event' = epInbox[k]
    <3>1. epInbox[k] \in EndpointsEvents
      BY <1>0, <1>3, Taken
    <3>2. Pass(lbPc', event', lbaas', neutron', changed') /\ lbPc' # "idle"
      BY <2>2, <3>1, BeginPass DEF Begin
    <3> QED
      BY <3>2 DEF Passing
  <2> QED
    BY <1>0, <1>3, <2>1, <2>2, Taken
<1>4. CASE Loop
  <2>1. lbPc # "idle" /\ lbPc' # "idle" /\ event' = event
    BY <1>4, LoopFrame DEF Steps
  <2>2. Pass(lbPc', event', lbaas', neutron', changed')
    BY <1>4, <2>1, LoopPass DEF Passing
  <2> QED
    BY <2>1, <2>2 DEF Passing
<1>5. CASE NotReady
  <2>1. Pass(lbPc', event', lbaas', neutron', changed') /\ lbPc' # "idle"
    BY <1>0, <1>5, BeginPass DEF NotReady, Begin
  <2> QED
    BY <2>1 DEF Passing
<1>6. CASE AnnotateState \/ Finishes \/ Drops \/ Restart
  BY <1>2, <1>6, DropsIdle, FinishIdle DEF AnnotateState, Restart, LbIdle
<1>7. CASE Others \/ RetryState \/ UNCHANGED <<epVars, lbVars, neutron, lapsed>>
  BY <1>1, <1>7 DEF Others, RetryState
<1> QED
  BY <1>3, <1>4, <1>5, <1>6, <1>7, NextSteps

-----------------------------------------------------------------------------
(* Nothing is leaked.                                                       *)

\* States without anything need not be remembered.
LEMMA Remembered ==
    ASSUME NEW M, NEW N, NEW v, NEW n, NEW b, Tracked(M, v, n, b),
           \A s \in M : s \in N \/ s = NoState
    PROVE  Tracked(N, v, n, b)
<1>1. ~NoState.loadbalancer /\ NoState.listeners = {} /\ NoState.pools = {} /\ NoState.members = {}
  BY DEF NoState
<1> QED
  BY <1>1 DEF Tracked

\* Between two passes all is remembered; a new one may make more.
LEMMA BeginTracked ==
    ASSUME NEW M, NEW n, Tracked(M, NoEvent, n, FALSE), NEW v, NEW b
    PROVE  Tracked(M, v, n, b)
BY NoPass DEF Tracked

\* What the inbox keeps when one event is put in, or the first k are taken out.
LEMMA AppendKeeps ==
    ASSUME NEW S, NEW q \in Seq(S), NEW e \in S
    PROVE  /\ \A i \in 1..Len(q) : i \in 1..Len(Append(q, e)) /\ Append(q, e)[i] = q[i]
           /\ \E i \in 1..Len(Append(q, e)) : Append(q, e)[i] = e
<1>1. Len(q) + 1 \in 1..Len(Append(q, e)) /\ Append(q, e)[Len(q) + 1] = e
  OBVIOUS
<1>2. \A i \in 1..Len(q) : i \in 1..Len(Append(q, e)) /\ Append(q, e)[i] = q[i]
  OBVIOUS
<1> QED
  BY <1>1, <1>2

LEMMA SkipKeeps ==
    ASSUME NEW S, NEW q \in Seq(S), NEW k \in 1..Len(q), NEW j \in 1..Len(q), j > k
    PROVE  \E i \in 1..Len(SubSeq(q, k + 1, Len(q))) :
              SubSeq(q, k + 1, Len(q))[i] = q[j]
<1>1. /\ j - k \in 1..Len(SubSeq(q, k + 1, Len(q)))
      /\ SubSeq(q, k + 1, Len(q))[j - k] = q[j]
  OBVIOUS
<1> QED
  BY <1>1

\* No step of the others, and no event taken, forgets a state.
LEMMA OthersRemember ==
    ASSUME TypeOK, Absent, Others
    PROVE  \A s \in Memory : s \in Memory' \/ s = NoState
<1>0. epInbox \in Seq(EndpointsEvents) /\ ep \in Endpoints /\ event' = event
  BY DEF TypeOK, ObjectTypes, EpTypes, Others, lbVars
<1>1. CASE UNCHANGED epVars
  BY <1>0, <1>1 DEF epVars, Memory, Annotated
<1>2. CASE DeleteEndpoints
  <2> DEFINE e == EndpointsEvent(TRUE, ep)
  <2>1. epInbox' = Append(epInbox, e) /\ e \in EndpointsEvents /\ e.deleted /\ e.object = ep
    BY <1>0, <1>2 DEF DeleteEndpoints, EndpointsEvent, EndpointsEvents
  <2> HIDE DEF e
  <2>2. /\ \A i \in 1..Len(epInbox) : i \in 1..Len(epInbox') /\ epInbox'[i] = epInbox[i]
        /\ \E i \in 1..Len(epInbox') : epInbox'[i] = e
    BY <1>0, <2>1, AppendKeeps
  <2> QED
    BY <1>0, <2>1, <2>2 DEF Memory, Annotated
<1>3. ASSUME NEW e, StoreEndpoints(e), e.state = IF ep.exists THEN ep.state ELSE NoState
      PROVE  \A s \in Memory : s \in Memory' \/ s = NoState
  <2>1. e \in Endpoints
    BY <1>3, K8sTypes, SpecHandlerTypes DEF Others, TypeOK, ObjectTypes, StoreEndpoints, EpTypes
  <2> DEFINE d == EndpointsEvent(FALSE, e)
  <2>2. epInbox' = Append(epInbox, d) /\ ep' = e /\ d \in EndpointsEvents
    BY <1>3, <2>1 DEF StoreEndpoints, EndpointsEvent, EndpointsEvents
  <2> HIDE DEF d
  <2>3. \A i \in 1..Len(epInbox) : i \in 1..Len(epInbox') /\ epInbox'[i] = epInbox[i]
    BY <1>0, <2>2, AppendKeeps
  <2>4. ep'.state = ep.state \/ ep.state = NoState
    BY <1>3, <2>2 DEF Absent
  <2> QED
    BY <1>0, <2>3, <2>4 DEF Memory, Annotated
<1> QED
  BY <1>1, <1>2, <1>3, OthersStep DEF Others

LEMMA TakeRemembers ==
    ASSUME TypeOK, Passing, NEW k \in 1..Len(epInbox), TakeEndpoints(k), ~lapsed'
    PROVE  \A s \in Memory : s \in Memory' \/ s = NoState
<1>0. /\ epInbox \in Seq(EndpointsEvents)
      /\ ep' = ep /\ epInbox' = SubSeq(epInbox, k + 1, Len(epInbox))
      /\ ~event.deleted
      /\ \A i \in 1..(k - 1) : epInbox[i].deleted => epInbox[i].object.state = NoState
      /\ \/ epInbox[k].deleted => epInbox[k].object.state = NoState
         \/ event' = epInbox[k]
  BY Taken DEF TypeOK, ObjectTypes, EpTypes, Passing, NoEvent, EndpointsEvent
<1>1. ASSUME NEW j \in 1..Len(epInbox), epInbox[j].deleted
      PROVE  epInbox[j].object.state \in Memory' \/ epInbox[j].object.state = NoState
  <2>1. CASE j < k
    <3>1. j \in 1..(k - 1)
      BY <2>1
    <3> QED
      BY <1>0, <1>1, <3>1
  <2>2. CASE j = k
    BY <1>0, <1>1, <2>2 DEF Memory
  <2>3. CASE j > k
    <3>1. \E i \in 1..Len(epInbox') : epInbox'[i] = epInbox[j]
      BY <1>0, <2>3, SkipKeeps
    <3> QED
      BY <1>1, <3>1 DEF Memory, Annotated
  <2> QED
    BY <2>1, <2>2, <2>3
<1> QED
  BY <1>0, <1>1 DEF Memory, Annotated

\* So does a restart, unless it loses the DELETED event of a state.
LEMMA RestartRemembers ==
    ASSUME TypeOK, Passing, Restart, ~lapsed'
    PROVE  /\ lbPc = "idle"
           /\ \A s \in Memory : s \in Memory' \/ s = NoState
<1>1. /\ lbPc = "idle" /\ ep' = ep
      /\ \A i \in 1..Len(epInbox) :
            epInbox[i].deleted => epInbox[i].object.state = NoState
  BY DEF Restart
<1>2. ~event.deleted
  BY <1>1 DEF Passing, NoEvent, EndpointsEvent
<1> QED
  BY <1>1, <1>2 DEF Memory, Annotated

\* What exists when the state is annotated is in that state, or in one that
\* is still remembered.
LEMMA AnnotateRemembers ==
    ASSUME Inv, Passing, Fresh, AnnotateState, ~lapsed,
           Tracked(Memory, event, neutron, TRUE)
    PROVE  Tracked(Memory', NoEvent, neutron, FALSE)
<1>0. /\ TypeOK /\ Orderly(event.object.state) /\ event \in EndpointsEvents
      /\ lbPc = "annotate" /\ ~event.deleted /\ ~epNewer
      /\ epInbox \in Seq(EndpointsEvents) /\ ep \in Endpoints /\ lbaas \in States
  BY DEF Inv, StatesOrderly, AnnotateState, Annotating, TypeOK, LbTypes, ObjectTypes, EpTypes
<1>1. /\ Mirror("annotate", event, lbaas, Gains) /\ Removed("annotate", event, neutron)
      /\ Gains = Gained(event, neutron.listeners)
  BY <1>0 DEF Passing, Pass, Gains
<1>2. /\ lbaas.loadbalancer /\ lbaas.listeners = KeptPools(event) \cup Gains
      /\ lbaas.pools = KeptPools(event) \cup Gains
      /\ lbaas.members = Kept(event) \cup Added(event, Gains)
  BY <1>0, <1>1 DEF Mirror, MembersRemoved, PoolsRemoved, ListenersRemoved, BalancerSynced,
                    ListenersAdded, PoolsAdded
<1>3. /\ neutron.members \cap event.object.state.members \subseteq Kept(event)
      /\ neutron.pools \cap event.object.state.pools \subseteq KeptPools(event)
      /\ neutron.listeners \cap event.object.state.listeners \subseteq KeptPools(event)
  BY <1>0, <1>1 DEF Removed, MembersRemoved, PoolsRemoved, ListenersRemoved
<1>4. /\ lbaas \in Memory'
      /\ \A s \in Memory : s \in Memory' \/ s = ep.state
  <2>1. CASE ep.state = lbaas /\ UNCHANGED <<ep, epInbox>>
    BY <1>0, <2>1 DEF Memory, Annotated
  <2>2. CASE StoreEndpoints([ep EXCEPT !.state = lbaas])
    <3>1. PICK e : e = [ep EXCEPT !.state = lbaas]
      OBVIOUS
    <3>2. e \in Endpoints /\ e.state = lbaas
      BY <1>0, <3>1 DEF Endpoints
    <3>3. PICK d : d = EndpointsEvent(FALSE, e)
      OBVIOUS
    <3>4. d \in EndpointsEvents
      BY <3>2, <3>3 DEF EndpointsEvent, EndpointsEvents
    <3>5. ep' = e /\ epInbox' = Append(epInbox, d)
      BY <2>2, <3>1, <3>3 DEF StoreEndpoints
    <3>6. \A i \in 1..Len(epInbox) : i \in 1..Len(epInbox') /\ epInbox'[i] = epInbox[i]
      BY <1>0, <3>4, <3>5, AppendKeeps
    <3> QED
      BY <1>0, <3>2, <3>5, <3>6 DEF Memory, Annotated
  <2> QED
    BY <2>1, <2>2 DEF AnnotateState
<1>5. ep.state \in {NoState, lbaas, event.object.state}
  BY <1>0 DEF Fresh
<1>6. ASSUME NEW s \in Memory
      PROVE  s \in Memory' \/ s \in {NoState, event.object.state}
  BY <1>4, <1>5
<1>7. NoState.listeners = {} /\ NoState.pools = {} /\ NoState.members = {}
  BY DEF NoState
<1>8. neutron.loadbalancer => \E s \in Memory' : s.loadbalancer
  BY <1>2, <1>4
<1>9. ASSUME NEW l \in neutron.listeners
      PROVE  \E s \in Memory' : l \in s.listeners
  BY <1>1, <1>2, <1>3, <1>4, <1>6, <1>7 DEF Tracked
<1>10. ASSUME NEW l \in neutron.pools
       PROVE  \E s \in Memory' : l \in s.pools
  BY <1>1, <1>2, <1>3, <1>4, <1>6, <1>7 DEF Tracked
<1>11. ASSUME NEW m \in neutron.members
       PROVE  \E s \in Memory' : m \in s.members
  BY <1>1, <1>2, <1>3, <1>4, <1>6, <1>7 DEF Tracked
<1> QED
  BY <1>8, <1>9, <1>10, <1>11 DEF Tracked

\* Once the pools are synced, nothing is left of what a deleted service had.
LEMMA NothingLeft ==
    ASSUME Inv, Passing, lbPc \in PoolsAdded, event.deleted
    PROVE  Gone(event.object.state)
<1>1. Orderly(event.object.state) /\ Removed(lbPc, event, neutron)
  BY DEF Inv, StatesOrderly, Passing, Pass, PoolsAdded
<1>2. KeptPools(event) = {}
  BY DeletedPass
<1>3. \A m \in event.object.state.members : m.pool \in event.object.state.pools
  BY <1>1 DEF Orderly
<1> QED
  BY <1>1, <1>2, <1>3 DEF Gone, Removed, PoolsRemoved, ListenersRemoved, BalancerSynced,
        MembersRemoved, PoolsAdded

\* When there is nothing to annotate, nothing was made, or the service was
\* deleted.
LEMMA EndRemembers ==
    ASSUME Inv, Passing, Finishes, ~lapsed,
           Tracked(Memory, event, neutron, TRUE)
    PROVE  Tracked(Memory', NoEvent, neutron, FALSE)
<1>0. /\ TypeOK /\ Agrees /\ event \in EndpointsEvents
      /\ UNCHANGED <<ep, epInbox>> /\ event' = NoEvent /\ ~NoEvent.deleted
  BY FinishIdle DEF Inv, TypeOK, LbTypes, LbIdle, NoEvent, EndpointsEvent
<1>1. lbPc \in PoolsAdded /\ (event.deleted \/ (lbPc = "annotate" /\ ~changed))
  BY <1>0, FinishFrame
<1>2. /\ ~event.deleted => Same("annotate", event, Gains)
      /\ Gains = Gained(event, neutron.listeners)
  BY <1>1 DEF Passing, Pass, Gains, PoolsAdded
<1>3. \A s \in Memory : s \in Memory' \/ (event.deleted /\ s = event.object.state)
  BY <1>0 DEF Memory, Annotated
<1>4. Gains = {} /\ Added(event, Gains) = {}
  <2>1. CASE event.deleted
    BY <1>2, <2>1, DeletedPass
  <2>2. CASE ~event.deleted
    BY <1>2, <2>2 DEF Same, ListenersAdded, Gained
  <2> QED
    BY <2>1, <2>2
<1>5. ~event.deleted => event.object.state.loadbalancer
  BY <1>2 DEF Same, BalancerSynced, ListenersRemoved
<1>6. event.deleted => Gone(event.object.state)
  BY <1>1, NothingLeft
<1>7. neutron.loadbalancer => \E s \in Memory' : s.loadbalancer
  BY <1>3, <1>5, <1>6 DEF Tracked, Gone
<1>8. /\ \A l \in neutron.listeners : \E s \in Memory' : l \in s.listeners
      /\ \A l \in neutron.pools : \E s \in Memory' : l \in s.pools
      /\ \A m \in neutron.members : \E s \in Memory' : m \in s.members
  BY <1>2, <1>3, <1>4, <1>6 DEF Tracked, Gone
<1> QED
  BY <1>7, <1>8 DEF Tracked

LEMMA TrackedStep ==
    ASSUME Inv, Passing, AllTracked, Fresh, Absent, [Next]_vars
    PROVE  AllTracked'
<1> SUFFICES ASSUME ~lapsed'
             PROVE  Tracked(Memory', event', neutron', lbPc' # "idle")
  BY DEF AllTracked
<1>0. TypeOK /\ event \in EndpointsEvents /\ Agrees /\ Reached /\ Orderly(event.object.state)
  BY DEF Inv, TypeOK, LbTypes, StatesOrderly
<1>1. ASSUME ~lapsed, UNCHANGED <<lbVars, neutron>>,
             \A s \in Memory : s \in Memory' \/ s = NoState
      PROVE  Tracked(Memory', event', neutron', lbPc' # "idle")
  <2>1. Tracked(Memory, event, neutron, lbPc # "idle")
    BY <1>1 DEF AllTracked
  <2> QED
    BY <1>1, <2>1, Remembered DEF lbVars
<1>2. CASE Others
  BY <1>0, <1>1, <1>2, OthersRemember DEF Others
<1>3. CASE UNCHANGED <<epVars, lbVars, neutron, lapsed>>
  BY <1>1, <1>3 DEF epVars, lbVars, Memory, Annotated
<1>4. CASE RetryState
  BY <1>1, <1>4 DEF RetryState, lbVars, Memory, Annotated
<1>5. ASSUME lbPc = "idle", ~lapsed, UNCHANGED neutron,
             \A s \in Memory : s \in Memory' \/ s = NoState
      PROVE  Tracked(Memory', event', neutron', lbPc' # "idle")
  <2>1. event = NoEvent /\ Tracked(Memory, NoEvent, neutron, FALSE)
    BY <1>5 DEF Passing, AllTracked
  <2>2. Tracked(Memory', NoEvent, neutron, FALSE)
    BY <1>5, <2>1, Remembered
  <2> QED
    BY <1>5, <2>2, BeginTracked
<1>6. ASSUME NEW k \in 1..Len(epInbox), TakeEndpoints(k)
      PROVE  Tracked(Memory', event', neutron', lbPc' # "idle")
  BY <1>0, <1>5, <1>6, Taken, TakeRemembers
<1>7. CASE Restart
  BY <1>0, <1>5, <1>7, RestartRemembers DEF Restart, LbIdle
<1>8. ASSUME lbPc # "idle", lbPc' # "idle", ~lapsed, UNCHANGED <<ep, epInbox, event>>,
             Moves(event, neutron, neutron')
      PROVE  Tracked(Memory', event', neutron', lbPc' # "idle")
  <2>1. Tracked(Memory, event, neutron, TRUE)
    BY <1>8 DEF AllTracked
  <2>2. Tracked(Memory, event, neutron', TRUE)
    BY <1>0, <1>8, <2>1, TrackedMoves
  <2>3. Memory' = Memory
    BY <1>8 DEF Memory, Annotated
  <2> QED
    BY <1>8, <2>2, <2>3
<1>9. CASE Loop
  <2>1. lbPc # "idle" /\ lbPc' # "idle" /\ UNCHANGED <<ep, epInbox, event, lapsed>>
    BY <1>9, LoopFrame DEF Steps
  <2> QED
    BY <1>8, <1>9, <2>1, LoopPass DEF Passing
<1>10. CASE NotReady
  <2>1. /\ lbPc # "idle" /\ lbPc' # "idle" /\ UNCHANGED <<ep, epInbox, event, lapsed>>
        /\ Partly
    BY <1>10 DEF NotReady, Partly, Begin
  <2>2. Moves(event, neutron, neutron')
    BY <1>0, <2>1, PartlyMoves DEF Passing, Pass, Gains
  <2> QED
    BY <1>8, <2>1, <2>2
<1>11. CASE AnnotateState \/ Finishes
  <2>1. /\ lbPc # "idle" /\ lbPc' = "idle" /\ event' = NoEvent /\ UNCHANGED <<neutron, lapsed>>
    BY <1>0, <1>11, FinishIdle, FinishFrame DEF AnnotateState, Annotating, LbIdle, PoolsAdded
  <2>2. Tracked(Memory, event, neutron, TRUE)
    BY <2>1 DEF AllTracked
  <2>3. Tracked(Memory', NoEvent, neutron, FALSE)
    BY <1>11, <2>1, <2>2, AnnotateRemembers, EndRemembers
  <2> QED
    BY <2>1, <2>3
<1>12. CASE Drops
  BY <1>12, DropsIdle
<1> QED
  BY <1>2, <1>3, <1>4, <1>6, <1>7, <1>9, <1>10, <1>11, <1>12, NextSteps

\* The second inductive invariant, on top of the first.
LeakInv == Passing /\ AllTracked /\ Fresh /\ Latest /\ Absent

LEMMA LeakInvInductive == Spec => []LeakInv
<1>1. Init => LeakInv
  <2>1. ASSUME Init
        PROVE  Passing /\ Fresh /\ Latest /\ Absent
    BY <2>1, Empty DEF Init, ObjectInit, LbInit, Passing, Fresh, Latest, Absent
  <2>2. ASSUME Init
        PROVE  AllTracked
    <3>1. neutron.listeners = {} /\ neutron.pools = {} /\ neutron.members = {} /\ ~neutron.loadbalancer
      BY <2>2 DEF Init, LbInit, NoState
    <3> QED
      BY <3>1 DEF AllTracked, Tracked
  <2> QED
    BY <2>1, <2>2 DEF LeakInv
<1>2. Inv /\ LeakInv /\ [Next]_vars => LeakInv'
  <2>1. ASSUME Inv, LeakInv, [Next]_vars
        PROVE  LeakInv'
    <3>1. TypeOK
      BY <2>1 DEF Inv
    <3> QED
      BY <2>1, <3>1, PassingStep, TrackedStep, FreshStep, EndpointsStep DEF LeakInv
  <2> QED
    BY <2>1
<1> QED
  BY <1>1, <1>2, Inductive, PTL DEF Spec

\* For endpoints that were added or modified, every key that
\* _add_new_members looks up in lsnr_by_id, pool_by_lsnr_port and
\* pool_by_tgt_name is there, whatever failed, was retried or was restarted
\* before.  For deleted ones the last lookup may fail, as their spec is empty,
\* but the KeyError then ends the event with nothing of their state left.
THEOREM LookupsSucceed == Spec => []LookupsFound
<1>1. ASSUME Inv, LeakInv
      PROVE  LookupsFound
  <2> SUFFICES ASSUME lbPc = "add_members"
               PROVE  /\ lbaas.pools \subseteq lbaas.listeners
                      /\ {p.port : p \in Spec_ports} \subseteq {l.port : l \in lbaas.pools}
                      /\ UnknownTargets # {} => event.deleted /\ Gone(event.object.state)
    BY DEF LookupsFound
  <2>1. lbaas.pools \subseteq lbaas.listeners
    BY <1>1 DEF Inv, StatesOrderly, Orderly
  <2>2. {p.port : p \in Spec_ports} \subseteq {l.port : l \in lbaas.pools}
    BY <1>1 DEF Inv, Reached
  <2>3. ASSUME UnknownTargets # {}
        PROVE  event.deleted /\ Gone(event.object.state)
    <3>1. event.deleted
      BY <1>1, <2>3, Unknown DEF Inv
    <3> QED
      BY <1>1, <3>1, NothingLeft DEF LeakInv, PoolsAdded
  <2> QED
    BY <2>1, <2>2, <2>3
<1> QED
  BY <1>1, Inductive, LeakInvInductive, PTL

\* Whatever LoadBalancerHandler has made in Neutron and not released is in the
\* state annotated on the endpoints, or in that of a DELETED event to come,
\* whenever it handles no event and has dropped none: for any number of lives
\* of the service, events that wait, failures and retries.
THEOREM NothingIsLeaked == Spec => []NothingLeaked
<1>1. LeakInv => NothingLeaked
  <2> SUFFICES ASSUME LeakInv, ~lapsed, lbPc = "idle"
               PROVE  /\ neutron.loadbalancer => \E s \in Annotated : s.loadbalancer
                      /\ \A l \in neutron.listeners : \E s \in Annotated : l \in s.listeners
                      /\ \A l \in neutron.pools : \E s \in Annotated : l \in s.pools
                      /\ \A m \in neutron.members : \E s \in Annotated : m \in s.members
    BY DEF NothingLeaked
  <2>1. event = NoEvent /\ Tracked(Memory, NoEvent, neutron, FALSE)
    BY DEF LeakInv, Passing, AllTracked
  <2>2. Memory = Annotated
    BY <2>1 DEF Memory, NoEvent, EndpointsEvent
  <2> QED
    BY <2>1, <2>2, NoPass DEF Tracked
<1> QED
  BY <1>1, LeakInvInductive, PTL

-----------------------------------------------------------------------------
(* Nothing is imagined: while the endpoints have had one life.              *)

\* Until the endpoints are created there is nothing to handle, and while they
\* exist nothing says they were deleted.
Once == /\ epLives = 0 => epInbox = <<>> /\ lbPc = "idle" /\ ~ep.exists
        /\ epLives = 1 /\ ep.exists =>
             ~event.deleted /\ \A i \in 1..Len(epInbox) : ~epInbox[i].deleted

\* What the pass over v keeps, or has made, exists.
Backed(pc, v, n) ==
    /\ v.object.state.loadbalancer => n.loadbalancer
    /\ KeptPools(v) \subseteq n.listeners
    /\ KeptPools(v) \subseteq n.pools
    /\ Kept(v) \subseteq n.members
    /\ pc \in BalancerSynced => n.loadbalancer
    /\ pc \in PoolsAdded     => Gained(v, n.listeners) \subseteq n.pools
    /\ pc = "annotate"       => Added(v, Gained(v, n.listeners)) \subseteq n.members

\* All events are of endpoints without a state or with the one they have now,
\* and that state exists unless a pass that began with it is changing it.
Real(q, e, v, pc, n) ==
    /\ \A i \in 1..Len(q) : q[i].object.state \in {NoState, e.state}
    /\ v.object.state \in {NoState, e.state}
    /\ pc = "idle" \/ v.object.state # e.state => Within(e.state, n)
    /\ pc # "idle" => Backed(pc, v, n)

AllReal == ~lapsed /\ epLives = 1 /\ ep.exists =>
             Real(epInbox, ep, event, lbPc, neutron)

\* Lives.
LEMMA NextLives ==
    ASSUME TypeOK, [Next]_vars
    PROVE  \/ Others /\ CreateEndpoints
           \/ /\ epLives' = epLives /\ (ep'.exists => ep.exists)
              /\ Others => \/ UNCHANGED epVars \/ DeleteEndpoints
                           \/ \E e : StoreEndpoints(e) /\ e.exists /\ e.state = ep.state
<1>0. ep \in Endpoints /\ svc \in Services /\ NoEndpoints.exists = FALSE
  BY DEF TypeOK, ObjectTypes, EpTypes, SvcTypes, NoEndpoints
<1>1. CASE Others
  <2>1. CASE CreateEndpoints
    BY <1>1, <2>1
  <2>2. CASE ~CreateEndpoints
    <3>1. epLives' = epLives
      BY <1>1, <2>2 DEF Others, K8s, CreateService, ChangePorts, DeleteService, ChangePods,
            FollowPorts, DeleteEndpoints, lifeVars
    <3>2. UNCHANGED epVars \/ ep.exists
      BY <1>1, <2>2 DEF Others, K8s, CreateService, ChangePorts, DeleteService, ChangePods,
            FollowPorts, DeleteEndpoints, SpecHandler, AnnotateEndpoints, SpecGivesUp, SpecFails
    <3>3. \/ UNCHANGED epVars \/ DeleteEndpoints
          \/ \E e : StoreEndpoints(e) /\ e.exists /\ e.state = ep.state
      BY <1>1, <3>2, OthersStep DEF Others
    <3> QED
      BY <3>1, <3>2, <3>3 DEF epVars
  <2> QED
    BY <2>1, <2>2
<1>2. CASE ~Others
  <2>1. epLives' = epLives
    BY <1>2 DEF Next, SpecThread, LbThread, Others, Restart, lifeVars, vars, objectVars
  <2>2. CASE AnnotateState
    BY <1>2, <2>1, <2>2 DEF AnnotateState
  <2>3. CASE ~AnnotateState
    <3>1. ep' = ep
      BY <1>2, <2>3, NextSteps, LoopFrame, DropsIdle, FinishIdle
         DEF Restart, TakeEndpoints, NotReady, RetryState, epVars
    <3> QED
      BY <1>2, <2>1, <3>1
  <2> QED
    BY <2>2, <2>3
<1> QED
  BY <1>1, <1>2

LEMMA OnceStep ==
    ASSUME TypeOK, Passing, Once, [Next]_vars
    PROVE  Once'
<1>0. /\ epInbox \in Seq(EndpointsEvents) /\ ep \in Endpoints /\ epLives \in Nat
      /\ ~NoEvent.deleted
  BY DEF TypeOK, ObjectTypes, EpTypes, LifeTypes, NoEvent, EndpointsEvent
<1>1. ASSUME UNCHANGED <<epInbox, ep, event, epLives>>, lbPc = "idle" => lbPc' = "idle"
      PROVE  Once'
  BY <1>1 DEF Once
<1>2. CASE Others
  <2>1. CASE CreateEndpoints
    <3>1. PICK e \in Subsets([NoEndpoints EXCEPT !.exists = TRUE]) : StoreEndpoints(e)
      BY <2>1 DEF CreateEndpoints
    <3>2. e \in Endpoints
      <4>1. [NoEndpoints EXCEPT !.exists = TRUE] \in Endpoints
        BY Empty DEF Endpoints
      <4> QED
        BY <4>1, SubsetsTypes DEF TypeOK, ObjectTypes, SvcTypes
    <3>3. PICK d : d = EndpointsEvent(FALSE, e)
      OBVIOUS
    <3>4. d \in EndpointsEvents /\ ~d.deleted
      BY <3>2, <3>3 DEF EndpointsEvent, EndpointsEvents
    <3>5. epInbox' = Append(epInbox, d) /\ epLives' = epLives + 1 /\ event' = event
      BY <1>2, <2>1, <3>1, <3>3 DEF StoreEndpoints, CreateEndpoints, Others, lbVars
    <3>6. SUFFICES ASSUME epLives' = 1
                   PROVE  ~event'.deleted /\ \A i \in 1..Len(epInbox') : ~epInbox'[i].deleted
      BY <1>0, <3>5 DEF Once
    <3>7. epLives = 0
      BY <1>0, <3>5, <3>6
    <3>8. epInbox = <<>> /\ event = NoEvent
      BY <3>7 DEF Once, Passing
    <3>9. epInbox' = <<d>>
      BY <3>4, <3>5, <3>8
    <3> QED
      BY <1>0, <3>4, <3>5, <3>8, <3>9
  <2>2. CASE ~CreateEndpoints
    <3>1. /\ epLives' = epLives /\ (ep'.exists => ep.exists)
          /\ \/ UNCHANGED epVars \/ DeleteEndpoints
             \/ \E e : StoreEndpoints(e) /\ e.exists /\ e.state = ep.state
          /\ UNCHANGED <<lbPc, event>>
      BY <1>2, <2>2, NextLives DEF Others, lbVars
    <3>2. CASE UNCHANGED epVars
      BY <1>1, <3>1, <3>2 DEF epVars
    <3>3. CASE DeleteEndpoints
      <4>1. ~ep'.exists /\ epLives # 0
        BY <3>3 DEF DeleteEndpoints, NoEndpoints, Once
      <4> QED
        BY <3>1, <4>1 DEF Once
    <3>4. ASSUME NEW e, StoreEndpoints(e), e.exists, e.state = ep.state
          PROVE  Once'
      <4>1. ep' = e /\ ep.exists /\ epLives # 0
        BY <3>1, <3>4 DEF StoreEndpoints, Once
      <4>2. e \in Endpoints
        BY <1>2, <4>1, K8sTypes, SpecHandlerTypes DEF Others, TypeOK, ObjectTypes, EpTypes
      <4>3. PICK d : d = EndpointsEvent(FALSE, e)
        OBVIOUS
      <4>4. d \in EndpointsEvents /\ ~d.deleted /\ epInbox' = Append(epInbox, d)
        BY <3>4, <4>2, <4>3 DEF EndpointsEvent, EndpointsEvents, StoreEndpoints
      <4>5. \A i \in 1..Len(epInbox') :
               (\E j \in 1..Len(epInbox) : epInbox'[i] = epInbox[j]) \/ epInbox'[i] = d
        BY <1>0, <4>4, Appended
      <4> QED
        BY <3>1, <4>1, <4>4, <4>5 DEF Once
    <3> QED
      BY <3>1, <3>2, <3>3, <3>4
  <2> QED
    BY <2>1, <2>2
<1>3. CASE ~Others
  <2>0. epLives' = epLives /\ (ep'.exists => ep.exists)
    BY <1>3, NextLives
  <2>1. ASSUME NEW k \in 1..Len(epInbox), TakeEndpoints(k)
        PROVE  Once'
    <3>1. /\ epInbox' = SubSeq(epInbox, k + 1, Len(epInbox)) /\ ep' = ep
          /\ event' = epInbox[k] \/ event' = NoEvent
      BY <2>1, Taken DEF LbIdle
    <3>2. \A i \in 1..Len(epInbox') : \E j \in 1..Len(epInbox) : epInbox'[i] = epInbox[j]
      BY <1>0, <3>1, Skipped
    <3>3. epLives # 0
      <4>1. epInbox # <<>>
        BY <1>0
      <4> QED
        BY <4>1 DEF Once
    <3> QED
      BY <1>0, <2>0, <3>1, <3>2, <3>3 DEF Once
  <2>2. CASE Loop
    BY <1>1, <2>0, <2>2, LoopFrame DEF Steps
  <2>3. CASE NotReady
    BY <1>1, <2>0, <2>3 DEF NotReady, Partly
  <2>4. CASE RetryState \/ UNCHANGED <<epVars, lbVars, neutron, lapsed>>
    BY <1>1, <2>0, <2>4 DEF RetryState, lbVars, epVars
  <2>5. ASSUME UNCHANGED <<ep, epInbox>>, LbIdle
        PROVE  Once'
    BY <1>0, <2>0, <2>5 DEF LbIdle, Once
  <2>6. CASE Finishes \/ Drops
    BY <2>5, <2>6, DropsIdle, FinishIdle
  <2>7. CASE Restart
    <3>1. /\ ep' = ep /\ LbIdle
          /\ epInbox' = IF ep.exists THEN <<EndpointsEvent(FALSE, ep)>> ELSE <<>>
      BY <2>7 DEF Restart
    <3>2. \A i \in 1..Len(epInbox') : ~epInbox'[i].deleted
      BY <3>1 DEF EndpointsEvent
    <3> QED
      BY <1>0, <2>0, <3>1, <3>2 DEF Once, LbIdle
  <2>8. CASE AnnotateState
    <3>1. /\ event' = NoEvent /\ lbPc # "idle" /\ lbPc' = "idle"
          /\ UNCHANGED <<ep, epInbox>> \/ StoreEndpoints([ep EXCEPT !.state = lbaas])
      BY <2>8 DEF AnnotateState, Annotating
    <3>2. PICK d : d = EndpointsEvent(FALSE, [ep EXCEPT !.state = lbaas])
      OBVIOUS
    <3>3. d \in EndpointsEvents /\ ~d.deleted
      BY <1>0, <3>2 DEF EndpointsEvent, EndpointsEvents, Endpoints, TypeOK, LbTypes
    <3>4. epInbox' = epInbox \/ epInbox' = Append(epInbox, d)
      BY <3>1, <3>2 DEF StoreEndpoints
    <3>5. \A i \in 1..Len(epInbox') :
             (\E j \in 1..Len(epInbox) : epInbox'[i] = epInbox[j]) \/ epInbox'[i] = d
      BY <1>0, <3>3, <3>4, Appended
    <3> QED
      BY <1>0, <2>0, <3>1, <3>3, <3>5 DEF Once
  <2> QED
    BY <1>3, <2>1, <2>2, <2>3, <2>4, <2>6, <2>7, <2>8, NextSteps
<1> QED
  BY <1>2, <1>3

\* What a pass over an event that is no DELETED one leaves alone.
Keeps(v, n, m) ==
    /\ n.loadbalancer => m.loadbalancer
    /\ \A l \in n.listeners :
          l \in m.listeners \/ l \in v.object.state.listeners \ KeptPools(v)
    /\ \A l \in n.pools : l \in m.pools \/ l \in v.object.state.pools \ KeptPools(v)
    /\ \A x \in n.members : \/ x \in m.members
                            \/ x \in v.object.state.members \ Kept(v)
                            \/ x.pool \in v.object.state.pools \ KeptPools(v)

LEMMA PartlyKeeps ==
    ASSUME TypeOK, Agrees, Orderly(event.object.state), lbPc # "idle", ~event.deleted,
           Mirror(lbPc, event, lbaas, Gains), Removed(lbPc, event, neutron), Partly
    PROVE  Keeps(event, neutron, neutron')
<1>0. neutron \in States
  BY DEF TypeOK, LbTypes
<1>1. ASSUME lbPc = "remove_members", NEW M \in SUBSET UnusedMembers, neutron' = ReleaseMembers(M)
      PROVE  Keeps(event, neutron, neutron')
  <2>1. M \subseteq event.object.state.members \ Kept(event)
    BY <1>1, ToDo
  <2> QED
    BY <1>0, <1>1, <2>1 DEF ReleaseMembers, Keeps, States
<1>2. ASSUME lbPc = "remove_pools", NEW L \in SUBSET UnusedPools, neutron' = ReleasePools(L)
      PROVE  Keeps(event, neutron, neutron')
  <2>1. L \subseteq event.object.state.pools \ KeptPools(event)
    BY <1>2, ToDo
  <2> QED
    BY <1>0, <1>2, <2>1 DEF ReleasePools, Keeps, States
<1>3. ASSUME lbPc = "remove_listeners", NEW L \in SUBSET UnusedListeners,
             neutron' = ReleaseListeners(L)
      PROVE  Keeps(event, neutron, neutron')
  <2>1. L \subseteq event.object.state.listeners \ KeptPools(event)
    BY <1>3, ToDo
  <2> QED
    BY <1>0, <1>3, <2>1 DEF ReleaseListeners, Keeps, States
<1>4. CASE UNCHANGED neutron \/ neutron' = [neutron EXCEPT !.loadbalancer = ~event.deleted]
  BY <1>0, <1>4 DEF Keeps, States
<1>5. CASE \/ \E P \in SUBSET MissingPorts : neutron' = EnsureListeners(P)
           \/ \E L \in SUBSET MissingPools : neutron' = EnsurePools(L)
           \/ \E M \in SUBSET {m \in MissingMembers : m.pool \in neutron.pools} :
                 neutron' = EnsureMembers(M)
  BY <1>0, <1>5 DEF EnsureListeners, EnsurePools, EnsureMembers, Keeps, States
<1> QED
  BY <1>1, <1>2, <1>3, <1>4, <1>5 DEF Partly

\* What is kept exists all along; a state a pass did not begin with is left
\* alone by a pass that began with none.
LEMMA BackedKeeps ==
    ASSUME NEW v \in EndpointsEvents, Orderly(v.object.state), NEW n, NEW m, NEW pc,
           Keeps(v, n, m), Moves(v, n, m), Backed(pc, v, n), pc # "annotate",
           pc \in PoolsAdded => Complete(v, Gained(v, n.listeners))
    PROVE  Backed(pc, v, m)
<1>1. /\ Kept(v) \subseteq v.object.state.members
      /\ KeptPools(v) \subseteq v.object.state.listeners
      /\ {x.pool : x \in Kept(v)} = KeptPools(v)
      /\ Gained(v, n.listeners) \cap v.object.state.listeners = {}
      /\ v.object.state.pools \subseteq v.object.state.listeners
  BY KeptIsOld DEF Orderly
<1>2. \A x \in Kept(v) : x.pool \in KeptPools(v)
  BY <1>1
<1>3. pc \in PoolsAdded => Gained(v, m.listeners) = Gained(v, n.listeners)
  BY MovesGains
<1>4. /\ v.object.state.loadbalancer => m.loadbalancer
      /\ pc \in BalancerSynced => m.loadbalancer
      /\ KeptPools(v) \subseteq m.listeners
      /\ KeptPools(v) \subseteq m.pools
  BY DEF Keeps, Backed
<1>5. Kept(v) \subseteq m.members
  BY <1>2 DEF Keeps, Backed
<1>6. pc \in PoolsAdded => Gained(v, m.listeners) \subseteq m.pools
  BY <1>1, <1>3 DEF Keeps, Backed
<1> QED
  BY <1>4, <1>5, <1>6 DEF Backed

LEMMA WithinKeeps ==
    ASSUME NEW s, NEW v, v.object.state = NoState, NEW n, NEW m, Keeps(v, n, m), Within(s, n)
    PROVE  Within(s, m)
BY DEF NoState, Keeps, Within

\* A pass begins with what exists.
LEMMA BeginBacked ==
    ASSUME NEW v \in EndpointsEvents, Orderly(v.object.state), NEW n,
           Within(v.object.state, n)
    PROVE  Backed("remove_members", v, n)
BY KeptIsOld DEF Within, Backed, BalancerSynced, ListenersRemoved, PoolsAdded

\* At the end what the pass has made of the state exists.
LEMMA EndBacked ==
    ASSUME Inv, lbPc = "annotate", ~event.deleted,
           Mirror(lbPc, event, lbaas, Gains), Backed(lbPc, event, neutron)
    PROVE  Within(lbaas, neutron)
<1>1. /\ lbaas.loadbalancer /\ lbaas.listeners = KeptPools(event) \cup Gains
      /\ lbaas.pools = KeptPools(event) \cup Gains
      /\ lbaas.members = Kept(event) \cup Added(event, Gains)
  BY DEF Mirror, MembersRemoved, PoolsRemoved, ListenersRemoved, BalancerSynced,
         ListenersAdded, PoolsAdded
<1>2. /\ neutron.loadbalancer /\ KeptPools(event) \subseteq neutron.listeners
      /\ KeptPools(event) \subseteq neutron.pools /\ Kept(event) \subseteq neutron.members
      /\ Gains \subseteq neutron.pools /\ Added(event, Gains) \subseteq neutron.members
  BY DEF Backed, BalancerSynced, ListenersRemoved, PoolsAdded, Gains
<1>3. Gains \subseteq neutron.listeners
  BY DEF Gains, Gained
<1> QED
  BY <1>1, <1>2, <1>3 DEF Within

\* The loops.
LEMMA LoopReal ==
    ASSUME Inv, Passing, ~event.deleted, Loop, Backed(lbPc, event, neutron)
    PROVE  Keeps(event, neutron, neutron') /\ Backed(lbPc', event, neutron')
<1>0. /\ TypeOK /\ Agrees /\ Reached /\ Orderly(event.object.state)
      /\ event \in EndpointsEvents /\ neutron \in States /\ lbaas.loadbalancer \in BOOLEAN
      /\ lbPc # "idle" /\ lbPc # "annotate"
  BY LoopFrame DEF Inv, TypeOK, LbTypes, StatesOrderly, Steps, States
<1>1. /\ Mirror(lbPc, event, lbaas, Gains) /\ Removed(lbPc, event, neutron)
      /\ Pass(lbPc, event, lbaas, neutron, changed)
      /\ Gains = Gained(event, neutron.listeners)
  BY <1>0 DEF Passing, Pass, Gains
<1>2. Keeps(event, neutron, neutron')
  BY <1>0, <1>1, LoopIsPartly, PartlyKeeps
<1>3. Moves(event, neutron, neutron')
  BY <1>0, <1>1, LoopPass
<1>4. Backed(lbPc, event, neutron')
  <2>1. lbPc \in PoolsAdded => Complete(event, Gains)
    BY <1>1 DEF Mirror, PoolsAdded, ListenersAdded
  <2> QED
    BY <1>0, <1>1, <1>2, <1>3, <2>1, BackedKeeps
<1>5. Complete(event, Gains) => Gained(event, neutron'.listeners) = Gains
  BY <1>0, <1>1, <1>3, MovesGains
<1> USE DEF BalancerSynced, ListenersRemoved, PoolsAdded
<1>6. CASE \/ RemoveUnusedMembers \/ RemoveUnusedPools \/ RemoveUnusedListeners
           \/ AddNewListeners
  <2>1. \/ lbPc = "remove_members" /\ lbPc' = "remove_pools"
        \/ lbPc = "remove_pools" /\ lbPc' = "remove_listeners"
        \/ lbPc = "remove_listeners" /\ lbPc' = "loadbalancer"
        \/ lbPc = "add_listeners" /\ lbPc' = "add_pools"
    BY <1>6 DEF RemoveUnusedMembers, RemoveUnusedPools, RemoveUnusedListeners,
          AddNewListeners, Step
  <2> QED
    BY <1>2, <1>4, <2>1 DEF Backed
<1>7. CASE SyncLoadBalancer
  <2>1. /\ lbPc = "loadbalancer" /\ lbPc' = "add_listeners"
        /\ neutron'.loadbalancer = IF lbaas.loadbalancer THEN neutron.loadbalancer ELSE TRUE
    BY <1>0, <1>7 DEF SyncLoadBalancer, Step, States
  <2>2. lbaas.loadbalancer = event.object.state.loadbalancer
    BY <1>1, <2>1 DEF Mirror
  <2>3. neutron'.loadbalancer
    BY <2>1, <2>2 DEF Backed
  <2> QED
    BY <1>2, <1>4, <2>1, <2>3 DEF Backed
<1>8. CASE AddNewPools
  <2>1. /\ lbPc = "add_pools" /\ lbPc' = "add_members"
        /\ MissingPools = Gains /\ Complete(event, Gains)
        /\ neutron'.pools = neutron.pools \cup MissingPools
    BY <1>0, <1>1, <1>8, ToDo DEF AddNewPools, Step, EnsurePools, States, Mirror, ListenersAdded
  <2> QED
    BY <1>2, <1>4, <1>5, <2>1 DEF Backed
<1>9. CASE AddNewMembers
  <2>1. /\ lbPc = "add_members" /\ lbPc' = "annotate"
        /\ MissingMembers = Added(event, Gains) /\ Complete(event, Gains)
        /\ neutron'.members = neutron.members \cup MissingMembers
    BY <1>0, <1>1, <1>9, ToDo DEF AddNewMembers, Step, EnsureMembers, States, Mirror, ListenersAdded
  <2> QED
    BY <1>2, <1>4, <1>5, <2>1 DEF Backed
<1> QED
  BY <1>6, <1>7, <1>8, <1>9 DEF Loop

LEMMA RealStep ==
    ASSUME Inv, Passing, Fresh, Absent, Once, AllReal, [Next]_vars
    PROVE  AllReal'
<1> SUFFICES ASSUME ~lapsed', epLives' = 1, ep'.exists
             PROVE  Real(epInbox', ep', event', lbPc', neutron')
  BY DEF AllReal
<1>0. /\ TypeOK /\ Agrees /\ Reached /\ Orderly(event.object.state)
      /\ event \in EndpointsEvents /\ neutron \in States /\ lbaas \in States
      /\ epInbox \in Seq(EndpointsEvents) /\ ep \in Endpoints /\ epLives \in Nat
      /\ NoEvent.object.state = NoState
  BY Empty DEF Inv, TypeOK, LbTypes, StatesOrderly, ObjectTypes, EpTypes, LifeTypes
<1>1. CASE Others /\ CreateEndpoints
  <2>1. PICK e \in Subsets([NoEndpoints EXCEPT !.exists = TRUE]) : StoreEndpoints(e)
    BY <1>1 DEF CreateEndpoints
  <2>2. e \in Endpoints /\ e.state = NoState
    <3>1. /\ [NoEndpoints EXCEPT !.exists = TRUE] \in Endpoints
          /\ [NoEndpoints EXCEPT !.exists = TRUE].state = NoState
      BY Empty DEF Endpoints, NoEndpoints
    <3> QED
      BY <1>0, <2>1, <3>1, SubsetsTypes DEF TypeOK, ObjectTypes, SvcTypes
  <2>3. epLives = 0 /\ UNCHANGED <<lbPc, event, neutron>>
    BY <1>0, <1>1 DEF CreateEndpoints, Others, lbVars
  <2>4. epInbox = <<>> /\ lbPc = "idle" /\ event = NoEvent
    BY <2>3 DEF Once, Passing
  <2>5. epInbox' = <<EndpointsEvent(FALSE, e)>> /\ ep' = e
    <3>1. PICK d : d = EndpointsEvent(FALSE, e)
      OBVIOUS
    <3>2. d \in EndpointsEvents
      BY <2>2, <3>1 DEF EndpointsEvent, EndpointsEvents
    <3> QED
      BY <2>1, <2>4, <3>1, <3>2 DEF StoreEndpoints
  <2>6. Within(NoState, neutron)
    BY DEF NoState, Within
  <2>7. \A i \in 1..Len(epInbox') : epInbox'[i].object.state = NoState
    BY <2>2, <2>5 DEF EndpointsEvent
  <2> QED
    BY <1>0, <2>2, <2>3, <2>4, <2>5, <2>6, <2>7 DEF Real
<1> SUFFICES ASSUME ~(Others /\ CreateEndpoints)
             PROVE  Real(epInbox', ep', event', lbPc', neutron')
  BY <1>1
<1>2. epLives = 1 /\ ep.exists
  BY <1>0, NextLives
<1>3. /\ ~event.deleted /\ \A i \in 1..Len(epInbox) : ~epInbox[i].deleted
      /\ epLives # 0
  BY <1>2 DEF Once
<1>4. ~lapsed => Real(epInbox, ep, event, lbPc, neutron)
  BY <1>2 DEF AllReal
<1>5. ASSUME ~lapsed, UNCHANGED <<ep, epInbox, lbVars, neutron>>
      PROVE  Real(epInbox', ep', event', lbPc', neutron')
  BY <1>4, <1>5 DEF lbVars
<1>6. CASE Others
  <2>1. \/ UNCHANGED epVars \/ DeleteEndpoints
        \/ \E e : StoreEndpoints(e) /\ e.exists /\ e.state = ep.state
    BY <1>0, <1>6, NextLives
  <2>2. CASE UNCHANGED epVars
    BY <1>5, <1>6, <2>2 DEF Others, epVars
  <2>3. CASE DeleteEndpoints
    BY <2>3 DEF DeleteEndpoints, NoEndpoints
  <2>4. ASSUME NEW e, StoreEndpoints(e), e.state = ep.state
        PROVE  Real(epInbox', ep', event', lbPc', neutron')
    <3>1. ep' = e /\ ~lapsed /\ UNCHANGED <<lbPc, event, neutron>>
      BY <1>6, <2>4 DEF StoreEndpoints, Others, lbVars
    <3>2. e \in Endpoints
      BY <1>0, <1>6, <3>1, K8sTypes, SpecHandlerTypes DEF Others, TypeOK, ObjectTypes, EpTypes
    <3>3. PICK d : d = EndpointsEvent(FALSE, e)
      OBVIOUS
    <3>4. d \in EndpointsEvents /\ d.object = e /\ epInbox' = Append(epInbox, d)
      BY <2>4, <3>2, <3>3 DEF EndpointsEvent, EndpointsEvents, StoreEndpoints
    <3>5. \A i \in 1..Len(epInbox') :
             (\E j \in 1..Len(epInbox) : epInbox'[i] = epInbox[j]) \/ epInbox'[i] = d
      BY <1>0, <3>4, Appended
    <3>6. \A i \in 1..Len(epInbox') : epInbox'[i].object.state \in {NoState, ep.state}
      BY <1>4, <2>4, <3>1, <3>4, <3>5 DEF Real
    <3> QED
      BY <1>4, <2>4, <3>1, <3>6 DEF Real
  <2> QED
    BY <2>1, <2>2, <2>3, <2>4
<1>7. ASSUME NEW k \in 1..Len(epInbox), TakeEndpoints(k)
      PROVE  Real(epInbox', ep', event', lbPc', neutron')
  <2>1. /\ lbPc = "idle" /\ epInbox' = SubSeq(epInbox, k + 1, Len(epInbox))
        /\ UNCHANGED <<ep, neutron>> /\ ~lapsed /\ epInbox[k] \in EndpointsEvents
        /\ LbIdle \/ (Begin(epInbox[k]) /\ event' = epInbox[k])
    BY <1>0, <1>7, Taken
  <2>2. Real(epInbox, ep, event, lbPc, neutron) /\ Within(ep.state, neutron)
    BY <1>4, <2>1 DEF Real
  <2>3. \A i \in 1..Len(epInbox') : epInbox'[i].object.state \in {NoState, ep.state}
    <3>1. \A i \in 1..Len(epInbox') : \E j \in 1..Len(epInbox) : epInbox'[i] = epInbox[j]
      BY <1>0, <2>1, Skipped
    <3> QED
      BY <2>2, <3>1 DEF Real
  <2>4. CASE LbIdle
    BY <1>0, <2>1, <2>2, <2>3, <2>4 DEF LbIdle, Real
  <2>5. CASE Begin(epInbox[k]) /\ event' = epInbox[k]
    <3>1. epInbox[k].object.state \in {NoState, ep.state} /\ Orderly(epInbox[k].object.state)
      BY <2>2 DEF Real, Inv, StatesOrderly, Annotations
    <3>2. Within(epInbox[k].object.state, neutron)
      BY <2>2, <3>1 DEF NoState, Within
    <3>3. Backed("remove_members", epInbox[k], neutron)
      BY <2>1, <3>1, <3>2, BeginBacked
    <3> QED
      BY <2>1, <2>2, <2>3, <2>5, <3>1, <3>3 DEF Begin, Real
  <2> QED
    BY <2>1, <2>4, <2>5
<1>8. ASSUME ~lapsed, UNCHANGED <<ep, epInbox, event>>, lbPc # "idle", lbPc' # "idle",
             Keeps(event, neutron, neutron'), Backed(lbPc', event, neutron')
      PROVE  Real(epInbox', ep', event', lbPc', neutron')
  <2>1. Real(epInbox, ep, event, lbPc, neutron)
    BY <1>4, <1>8
  <2>2. ASSUME event.object.state # ep.state
        PROVE  Within(ep.state, neutron')
    BY <1>8, <2>1, <2>2, WithinKeeps DEF Real
  <2> QED
    BY <1>8, <2>1, <2>2 DEF Real
<1>9. CASE Loop
  <2>1. lbPc # "idle" /\ lbPc' # "idle" /\ UNCHANGED <<ep, epInbox, event, lapsed>>
    BY <1>9, LoopFrame DEF Steps
  <2>2. Backed(lbPc, event, neutron)
    BY <1>4, <2>1 DEF Real
  <2> QED
    BY <1>3, <1>8, <1>9, <2>1, <2>2, LoopReal
<1>10. CASE NotReady
  <2>1. /\ lbPc # "idle" /\ lbPc # "annotate" /\ lbPc' = "remove_members"
        /\ UNCHANGED <<ep, epInbox, event, lapsed>> /\ Partly
    BY <1>10 DEF NotReady, Partly, Begin
  <2>2. /\ Mirror(lbPc, event, lbaas, Gains) /\ Removed(lbPc, event, neutron)
        /\ Gains = Gained(event, neutron.listeners)
    BY <2>1 DEF Passing, Pass, Gains
  <2>3. Keeps(event, neutron, neutron') /\ Moves(event, neutron, neutron')
    BY <1>0, <1>3, <2>1, <2>2, PartlyKeeps, PartlyMoves
  <2>4. Backed(lbPc, event, neutron')
    <3>1. lbPc \in PoolsAdded => Complete(event, Gains)
      BY <2>2 DEF Mirror, PoolsAdded, ListenersAdded
    <3>2. Backed(lbPc, event, neutron)
      BY <1>4, <2>1 DEF Real
    <3> QED
      BY <1>0, <2>1, <2>2, <2>3, <3>1, <3>2, BackedKeeps
  <2>5. Backed(lbPc', event, neutron')
    BY <2>1, <2>4 DEF Backed, BalancerSynced, ListenersRemoved, PoolsAdded
  <2> QED
    BY <1>8, <2>1, <2>3, <2>5
<1>11. CASE AnnotateState
  <2>1. /\ lbPc = "annotate" /\ lbPc' = "idle" /\ event' = NoEvent /\ ~lapsed /\ ~epNewer
        /\ UNCHANGED neutron
    BY <1>11 DEF AnnotateState, Annotating
  <2>2. Real(epInbox, ep, event, lbPc, neutron) /\ Mirror(lbPc, event, lbaas, Gains)
    BY <1>4, <2>1 DEF Passing, Pass, Gains
  <2>3. Within(lbaas, neutron)
    BY <1>3, <2>1, <2>2, EndBacked DEF Real
  <2>4. \A i \in 1..Len(epInbox) : epInbox[i].object.state \in {NoState, lbaas}
    <3>1. epInbox = <<>> \/ ep.state \in {NoState, lbaas}
      BY <1>3, <2>1 DEF Fresh
    <3>2. CASE epInbox = <<>>
      BY <3>2
    <3>3. CASE ep.state \in {NoState, lbaas}
      BY <2>2, <3>3 DEF Real
    <3> QED
      BY <3>1, <3>2, <3>3
  <2>5. ep'.state = lbaas /\ \A i \in 1..Len(epInbox') : epInbox'[i].object.state \in {NoState, lbaas}
    <3>1. CASE ep.state = lbaas /\ UNCHANGED <<ep, epInbox>>
      BY <2>4, <3>1
    <3>2. CASE StoreEndpoints([ep EXCEPT !.state = lbaas])
      <4>1. PICK e : e = [ep EXCEPT !.state = lbaas]
        OBVIOUS
      <4>2. e \in Endpoints /\ e.state = lbaas
        BY <1>0, <4>1 DEF Endpoints
      <4>3. PICK d : d = EndpointsEvent(FALSE, e)
        OBVIOUS
      <4>4. d \in EndpointsEvents /\ d.object = e
        BY <4>2, <4>3 DEF EndpointsEvent, EndpointsEvents
      <4>5. ep' = e /\ epInbox' = Append(epInbox, d)
        BY <3>2, <4>1, <4>3 DEF StoreEndpoints
      <4>6. \A i \in 1..Len(epInbox') :
               (\E j \in 1..Len(epInbox) : epInbox'[i] = epInbox[j]) \/ epInbox'[i] = d
        BY <1>0, <4>4, <4>5, Appended
      <4> QED
        BY <2>4, <4>2, <4>4, <4>5, <4>6
    <3> QED
      BY <1>11, <3>1, <3>2 DEF AnnotateState
  <2> QED
    BY <1>0, <2>1, <2>3, <2>5 DEF Real
<1>12. CASE Finishes
  <2>1. /\ lbPc = "annotate" /\ ~changed /\ lbPc' = "idle" /\ event' = NoEvent /\ ~lapsed
        /\ UNCHANGED <<ep, epInbox, neutron>>
    BY <1>0, <1>3, <1>12, FinishIdle, FinishFrame DEF LbIdle
  <2>2. Real(epInbox, ep, event, lbPc, neutron) /\ Same(lbPc, event, Gains)
    BY <1>3, <1>4, <2>1 DEF Passing, Pass, Gains
  <2>3. /\ event.object.state.loadbalancer
        /\ Kept(event) = event.object.state.members
        /\ KeptPools(event) = event.object.state.pools
        /\ KeptPools(event) = event.object.state.listeners
    BY <2>1, <2>2 DEF Same, MembersRemoved, PoolsRemoved, ListenersRemoved, BalancerSynced
  <2>4. event.object.state = ep.state
    BY <2>2, <2>3 DEF Real, NoState
  <2>5. Within(event.object.state, neutron)
    BY <2>1, <2>2, <2>3 DEF Real, Backed, Within
  <2> QED
    BY <1>0, <2>1, <2>2, <2>4, <2>5 DEF Real
<1>13. CASE Drops
  BY <1>13, DropsIdle
<1>14. CASE Restart
  <2>1. /\ ep' = ep /\ LbIdle /\ ~lapsed /\ lbPc = "idle" /\ UNCHANGED neutron
        /\ epInbox' = <<EndpointsEvent(FALSE, ep)>>
    BY <1>2, <1>14 DEF Restart
  <2>2. Within(ep.state, neutron)
    BY <1>4, <2>1 DEF Real
  <2>3. \A i \in 1..Len(epInbox') : epInbox'[i].object.state = ep.state
    BY <2>1 DEF EndpointsEvent
  <2>4. lbPc' = "idle" /\ event' = NoEvent
    BY <2>1 DEF LbIdle
  <2> QED
    BY <1>0, <2>1, <2>2, <2>3, <2>4 DEF Real
<1>15. CASE RetryState \/ UNCHANGED <<epVars, lbVars, neutron, lapsed>>
  BY <1>5, <1>15 DEF RetryState, epVars
<1> QED
  BY <1>6, <1>7, <1>9, <1>10, <1>11, <1>12, <1>13, <1>14, <1>15, NextSteps

LEMMA RealInductive == Spec => [](Once /\ AllReal /\ LeakInv)
<1>1. Init => Once /\ AllReal
  BY DEF Init, ObjectInit, LbInit, NoEndpoints, NoEvent, EndpointsEvent, Once, AllReal
<1>2. Inv /\ LeakInv /\ (Once /\ AllReal) /\ [Next]_vars => (Once /\ AllReal)'
  BY OnceStep, RealStep DEF LeakInv, Inv
<1> QED
  BY <1>1, <1>2, Inductive, LeakInvInductive, PTL DEF Spec

\* While the endpoints have had one life, the state annotated on them has
\* nothing that does not exist in Neutron, whenever LoadBalancerHandler
\* handles no event and has dropped none.
THEOREM NothingIsImagined == Spec => []NothingImagined
<1>1. Once /\ AllReal /\ LeakInv => NothingImagined
  <2>1. ASSUME AllReal, Absent, ~lapsed, lbPc = "idle", epLives = 1
        PROVE  Within(ep.state, neutron)
    <3>1. CASE ep.exists
      BY <2>1, <3>1 DEF AllReal, Real
    <3>2. CASE ~ep.exists
      BY <2>1, <3>2 DEF Absent, NoState, Within
    <3> QED
      BY <3>1, <3>2
  <2> QED
    BY <2>1 DEF LeakInv, NothingImagined
<1> QED
  BY <1>1, RealInductive, PTL
=============================================================================
