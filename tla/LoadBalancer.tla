----------------------------- MODULE LoadBalancer -----------------------------
(***************************************************************************)
(* LoadBalancerHandler (controller/handlers/lbaas.py): on an event of the  *)
(* endpoints it makes the load balancer, listeners, pools and members in   *)
(* Neutron what the endpoints and their LBaaSServiceSpec ask for, starting *)
(* from the LBaaSState annotated on them, and annotates the new state.     *)
(*                                                                         *)
(* A step is one of the _remove_, _sync_ and _add_ methods: a loop of      *)
(* calls to the LBaaS driver, of which only some take place if it fails.   *)
(* A call of the driver gets or creates, or releases, one Neutron object.  *)
(***************************************************************************)
EXTENDS ServiceObjects

CONSTANT MaxFaults  \* bound: requests that fail and restarts of the controller

VARIABLES lbPc,     \* the method that is next
          event,    \* the event it handles
          lbaas,    \* lbaas_state
          changed,
          neutron,  \* what exists
          lapsed,   \* an event was dropped before its end
          faults

lbVars == <<lbPc, event, lbaas, changed>>

Steps == {"remove_members", "remove_pools", "remove_listeners",
          "loadbalancer", "add_listeners", "add_pools", "add_members"}

NoEvent == EndpointsEvent(FALSE, NoEndpoints)

LbTypes ==
    /\ lbPc \in {"idle", "annotate"} \cup Steps
    /\ event \in EndpointsEvents
    /\ lbaas \in States /\ neutron \in States
    /\ changed \in BOOLEAN /\ lapsed \in BOOLEAN /\ faults \in Nat

LbInit ==
    /\ lbPc = "idle" /\ event = NoEvent /\ lbaas = NoState /\ changed = FALSE
    /\ neutron = NoState /\ lapsed = FALSE /\ faults = 0

LbIdle == /\ lbPc' = "idle" /\ event' = NoEvent
          /\ lbaas' = NoState /\ changed' = FALSE /\ epNewer' = TRUE

Drop == LbIdle /\ lapsed' = TRUE

-----------------------------------------------------------------------------
(* on_present and on_deleted: which events are handled.                     *)

\* Mutant: the ports of the endpoints are not compared with the spec.
ShouldIgnore_AnyPorts(e) == e.spec = {} \/ e.ready = {}

\* No spec, no pods, or port names that are not those of the spec.
ShouldIgnore(e) == e.spec = {} \/ e.ready = {} \/ e.names # Names(e.spec)

\* _remove_unused_members looks up the addresses of every subset.
NoAddresses(e) == e.ready = {} /\ e.names # {}

Begin(v) == /\ lbPc' = "remove_members" /\ changed' = FALSE
            /\ lbaas' = IF v.deleted THEN [v.object.state EXCEPT !.members = {}]
                                     ELSE v.object.state

\* Events before the k-th are skipped.
TakeEndpoints(k) ==
    LET v    == epInbox[k]
        gone == \E i \in 1..(k - 1) :
                   epInbox[i].deleted /\ epInbox[i].object.state # NoState IN
    /\ lbPc = "idle"
    /\ epInbox' = SubSeq(epInbox, k + 1, Len(epInbox))
    /\ IF (IF v.deleted THEN v.object.state = NoState ELSE ShouldIgnore(v.object))
       THEN LbIdle /\ lapsed' = (lapsed \/ gone)
       ELSE IF v.deleted /\ NoAddresses(v.object)
       THEN Drop
       ELSE /\ Begin(v) /\ event' = v /\ epNewer' = (k < Len(epInbox))
            /\ lapsed' = (lapsed \/ gone)
    /\ UNCHANGED <<ep, neutron, faults>>

-----------------------------------------------------------------------------
(* _sync_lbaas_members and what it calls.                                   *)

Spec_ports == IF event.deleted THEN {} ELSE event.object.spec

PoolOf(name) ==
    CHOOSE l \in lbaas.pools : [name |-> name, port |-> l.port] \in Spec_ports

\* (ip, port) of the endpoints, and of the members known.
Targets == event.object.ready \X
           {TargetPort[n] : n \in event.object.names \cap Names(Spec_ports)}
Current == {<<m.pod, m.port>> : m \in lbaas.members}

UnusedMembers   == {m \in lbaas.members : <<m.pod, m.port>> \notin Targets}
UnusedPools     == lbaas.pools \ {m.pool : m \in lbaas.members}
UnusedListeners == lbaas.listeners \ lbaas.pools
MissingPorts    == {p.port : p \in Spec_ports} \ {l.port : l \in lbaas.listeners}
MissingPools    == lbaas.listeners \ lbaas.pools
MissingTargets  ==
    {t \in event.object.ready \X event.object.names :
        <<t[1], TargetPort[t[2]]>> \notin Current}

\* Of a port name that the spec does not have, as on_deleted's empty one.
UnknownTargets  == {t \in MissingTargets : t[2] \notin Names(Spec_ports)}
MissingMembers  ==
    {[pool |-> PoolOf(t[2]), pod |-> t[1], port |-> TargetPort[t[2]]] :
        t \in MissingTargets \ UnknownTargets}

\* The driver and Neutron.  Deleting a pool deletes its members.
ReleaseMembers(M)   == [neutron EXCEPT !.members = @ \ M]
ReleasePools(L)     == [neutron EXCEPT !.pools = @ \ L,
                           !.members = {m \in @ : m.pool \notin L}]
ReleaseListeners(L) == [neutron EXCEPT !.listeners = @ \ L]

\* A new listener gets an id that nobody has a record of.
Known == UNION {s.listeners : s \in
            {neutron, lbaas, ep.state, event.object.state}
              \cup {epInbox[i].object.state : i \in 1..Len(epInbox)}}
NewListener(p) ==
    CHOOSE l \in Listeners : l.port = p /\ l \notin Known
NewPorts(P) == P \ {l.port : l \in neutron.listeners}
EnsuredListeners(P) ==
    {l \in neutron.listeners : l.port \in P} \cup {NewListener(p) : p \in NewPorts(P)}

\* Bound: Ids has one left for each new listener.
IdsLeft(P) ==
    \A p \in NewPorts(P) : \E l \in Listeners : l.port = p /\ l \notin Known
EnsureListeners(P) ==
    [neutron EXCEPT !.listeners = @ \cup EnsuredListeners(P)]
EnsurePools(L)   == [neutron EXCEPT !.pools = @ \cup L]
EnsureMembers(M) == [neutron EXCEPT !.members = @ \cup M]

Step(pc, next, todo) ==
    /\ lbPc = pc /\ lbPc' = next
    /\ changed' = (changed \/ todo # {})
    /\ UNCHANGED <<ep, epInbox, epNewer, event, lapsed, faults>>

\* Mutant: the released members stay in the state.
RemoveUnusedMembers_Stay ==
    /\ Step("remove_members", "remove_pools", UnusedMembers)
    /\ neutron' = ReleaseMembers(UnusedMembers)
    /\ UNCHANGED lbaas

RemoveUnusedMembers ==
    /\ Step("remove_members", "remove_pools", UnusedMembers)
    /\ neutron' = ReleaseMembers(UnusedMembers)
    /\ lbaas'   = [lbaas EXCEPT !.members = @ \ UnusedMembers]

RemoveUnusedPools ==
    /\ Step("remove_pools", "remove_listeners", UnusedPools)
    /\ neutron' = ReleasePools(UnusedPools)
    /\ lbaas'   = [lbaas EXCEPT !.pools = @ \ UnusedPools]

RemoveUnusedListeners ==
    /\ Step("remove_listeners", "loadbalancer", UnusedListeners)
    /\ neutron' = ReleaseListeners(UnusedListeners)
    /\ lbaas'   = [lbaas EXCEPT !.listeners = @ \ UnusedListeners]

\* Neutron does not delete a load balancer that is in use.
InUse == neutron.listeners # {} \/ neutron.pools # {}

\* Mutant: without an IP in the spec, the load balancer is kept.
SyncLoadBalancer_Keep ==
    /\ Step("loadbalancer", "add_listeners",
            IF event.deleted \/ lbaas.loadbalancer THEN {} ELSE {TRUE})
    /\ neutron' = [neutron EXCEPT !.loadbalancer = @ \/ ~event.deleted]
    /\ lbaas'   = [lbaas EXCEPT !.loadbalancer = @ \/ ~event.deleted]

\* The load balancer is released when the endpoints are deleted, and got or
\* created otherwise.
SyncLoadBalancer ==
    LET wanted == ~event.deleted IN
    /\ wanted \/ ~lbaas.loadbalancer \/ ~InUse
    /\ Step("loadbalancer", "add_listeners",
            IF wanted = lbaas.loadbalancer THEN {} ELSE {wanted})
    /\ neutron' = IF wanted = lbaas.loadbalancer THEN neutron
                  ELSE [neutron EXCEPT !.loadbalancer = wanted]
    /\ lbaas'   = [lbaas EXCEPT !.loadbalancer = wanted]

AddNewListeners ==
    /\ Step("add_listeners", "add_pools", MissingPorts)
    /\ IdsLeft(MissingPorts)
    /\ neutron' = EnsureListeners(MissingPorts)
    /\ lbaas'   = [lbaas EXCEPT !.listeners = @ \cup EnsuredListeners(MissingPorts)]

AddNewPools ==
    /\ Step("add_pools", "add_members", MissingPools)
    /\ neutron' = EnsurePools(MissingPools)
    /\ lbaas'   = [lbaas EXCEPT !.pools = @ \cup MissingPools]

\* Mutant: only the first member found missing is added.
AddNewMembers_One ==
    LET some == IF MissingMembers = {} THEN {}
                ELSE {CHOOSE m \in MissingMembers : TRUE} IN
    /\ lbPc = "add_members" /\ UnknownTargets = {}
    /\ {m.pool : m \in some} \subseteq neutron.pools
    /\ Step("add_members", "annotate", some)
    /\ neutron' = EnsureMembers(some)
    /\ lbaas'   = [lbaas EXCEPT !.members = @ \cup some]

\* Neutron makes no member for a pool that does not exist.
AddNewMembers ==
    /\ Step("add_members", "annotate", MissingMembers)
    /\ UnknownTargets = {} /\ {m.pool : m \in MissingMembers} \subseteq neutron.pools
    /\ neutron' = EnsureMembers(MissingMembers)
    /\ lbaas'   = [lbaas EXCEPT !.members = @ \cup MissingMembers]

\* The annotated state has a pool that is gone: the exception drops the event.
NotFound ==
    /\ lbPc = "add_members"
    /\ ~({m.pool : m \in MissingMembers} \subseteq neutron.pools)
    /\ Drop
    /\ UNCHANGED <<ep, epInbox, neutron, faults>>

\* What has been done of a loop, or of its last call, when it fails.
Partly ==
    \/ lbPc = "remove_members"   /\ \E M \in SUBSET UnusedMembers   : neutron' = ReleaseMembers(M)
    \/ lbPc = "remove_pools"     /\ \E L \in SUBSET UnusedPools     : neutron' = ReleasePools(L)
    \/ lbPc = "remove_listeners" /\ \E L \in SUBSET UnusedListeners : neutron' = ReleaseListeners(L)
    \/ lbPc = "loadbalancer"     /\ UNCHANGED neutron
    \/ /\ lbPc = "loadbalancer" /\ lbaas.loadbalancer = event.deleted
       /\ ~event.deleted \/ ~InUse
       /\ neutron' = [neutron EXCEPT !.loadbalancer = ~event.deleted]
    \/ lbPc = "add_listeners"    /\ \E P \in SUBSET MissingPorts    :
                                       IdsLeft(P) /\ neutron' = EnsureListeners(P)
    \/ lbPc = "add_pools"        /\ \E L \in SUBSET MissingPools :
                                       neutron' = EnsurePools(L)
    \/ lbPc = "add_members"      /\ \E M \in SUBSET {m \in MissingMembers : m.pool \in neutron.pools} :
                                       neutron' = EnsureMembers(M)

\* pool_by_tgt_name has no such name: the KeyError ends the event.  If it is
\* DELETED, everything was done before it (LookupsFound).
PortUnknown ==
    /\ lbPc = "add_members" /\ UnknownTargets # {}
    /\ Partly /\ LbIdle
    /\ lapsed' = (lapsed \/ ~event.deleted)
    /\ UNCHANGED <<ep, epInbox, faults>>

\* ResourceNotReady: Retry handles the event again from its beginning.
NotReady ==
    /\ faults < MaxFaults /\ faults' = faults + 1
    /\ Partly /\ Begin(event)
    /\ UNCHANGED <<ep, epInbox, epNewer, event, lapsed>>

\* Another exception, or Retry's time is up.
Fails ==
    /\ faults < MaxFaults /\ faults' = faults + 1
    /\ Partly /\ Drop
    /\ UNCHANGED <<ep, epInbox>>

\* A load balancer in use is never released: Retry gives up.
ReleaseGivesUp ==
    /\ lbPc = "loadbalancer" /\ event.deleted /\ lbaas.loadbalancer /\ InUse
    /\ Drop
    /\ UNCHANGED <<ep, epInbox, neutron, faults>>

-----------------------------------------------------------------------------
(* _set_lbaas_state.                                                        *)

\* on_deleted annotates nothing, on_present only changes.
NothingToAnnotate ==
    /\ lbPc = "annotate" /\ (event.deleted \/ ~changed)
    /\ LbIdle
    /\ UNCHANGED <<ep, epInbox, neutron, lapsed, faults>>

Annotating == lbPc = "annotate" /\ ~event.deleted /\ changed

\* Mutant: the state is annotated without a resourceVersion.
AnnotateState_Always ==
    /\ Annotating /\ ep.exists
    /\ StoreEndpoints([ep EXCEPT !.state = lbaas])
    /\ lbPc' = "idle" /\ event' = NoEvent
    /\ lbaas' = NoState /\ changed' = FALSE
    /\ UNCHANGED <<neutron, lapsed, faults>>

AnnotateState ==
    /\ Annotating /\ ep.exists /\ ~epNewer
    /\ IF ep.state = lbaas THEN UNCHANGED <<ep, epInbox>> /\ epNewer' = TRUE
                           ELSE StoreEndpoints([ep EXCEPT !.state = lbaas])
    /\ lbPc' = "idle" /\ event' = NoEvent
    /\ lbaas' = NoState /\ changed' = FALSE
    /\ UNCHANGED <<neutron, lapsed, faults>>

\* 409, and the endpoints have no state or this one: PATCH again.
RetryState ==
    /\ Annotating /\ ep.exists /\ epNewer
    /\ ep.state \in {NoState, lbaas}
    /\ epNewer' = FALSE
    /\ UNCHANGED <<ep, epInbox, lbVars, neutron, lapsed, faults>>

\* 404, or 409 and another state: K8sClientException.
StateDiffers ==
    /\ Annotating /\ epNewer
    /\ ~ep.exists \/ ep.state \notin {NoState, lbaas}
    /\ Drop
    /\ UNCHANGED <<ep, epInbox, neutron, faults>>

-----------------------------------------------------------------------------
LbHandler ==
    \/ \E k \in 1..Len(epInbox) : TakeEndpoints(k)
    \/ RemoveUnusedMembers \/ RemoveUnusedPools \/ RemoveUnusedListeners
    \/ SyncLoadBalancer
    \/ AddNewListeners \/ AddNewPools \/ AddNewMembers \/ NotFound \/ PortUnknown
    \/ ReleaseGivesUp
    \/ NothingToAnnotate \/ AnnotateState \/ RetryState \/ StateDiffers
=============================================================================
