-------------------------------- MODULE PodVIF -------------------------------
(***************************************************************************)
(* How a pod gets a Neutron port and loses it: VIFHandler                  *)
(* (controller/handlers/vif.py) with GenericPodVIFDriver, on one pod name  *)
(* (one selfLink, so one group of Async), against the K8s API, Neutron and *)
(* the CNI driver that plugs the port.                                     *)
(*                                                                         *)
(* Async is used as the mailbox AsyncHandler is proved to implement: the   *)
(* handler takes one event at a time, in order, and may skip to a later    *)
(* one.  Every HTTP request of the handler is a step of its own; between   *)
(* two of them the pod may be modified, deleted and created again.         *)
(***************************************************************************)
EXTENDS Naturals, Sequences

CONSTANTS Ports,       \* Neutron ports that may be created
          NoPort,
          MaxUid,      \* bound: pods created, one after the other, on the name
          MaxTroubles  \* bound: modifications by others, restarts of the
                       \* controller, watch connections lost, failing requests

ASSUME NoPortAssumption == NoPort \notin Ports
ASSUME BoundAssumption  == MaxUid \in Nat /\ MaxTroubles \in Nat

VARIABLES pod,      \* the pod in the K8s API, or Absent
          uids,     \* number of pods created so far
          version,  \* the last resourceVersion given out
          inbox,    \* watch events not yet taken by the handler
          pc,       \* where the handler is
          obj,      \* the pod of the event it handles
          hand,     \* the port of the VIF it works with
          active,   \* that VIF's `active'
          rv,       \* the resource_version of its next PATCH
          ports,    \* Neutron: status of each port
          portFor,  \* device_id: uid of the pod a port was created for
          plugged,  \* the port the CNI driver has plugged into the pod
          gaveUp,   \* Retry has timed out on a pod that still exists
          touches, restarts, losses, faults

handlerVars == <<pc, obj, hand, active, rv>>
neutronVars == <<ports, portFor>>
boundVars   == <<gaveUp, touches, restarts, losses, faults>>
breaks      == <<restarts, losses>>

MayHappen == touches + restarts + losses + faults < MaxTroubles
vars == <<pod, uids, version, inbox, handlerVars, neutronVars, plugged,
          boundVars>>

Phases == {"unscheduled", "pending", "running"}
PodObjects == [uid : Nat, ver : Nat, phase : Phases, host : BOOLEAN,
               port : Ports \cup {NoPort}, active : BOOLEAN]
Absent == [uid |-> 0, ver |-> 0, phase |-> "unscheduled", host |-> FALSE,
           port |-> NoPort, active |-> FALSE]
Exists == pod.uid # 0

Events == [type : {"ADDED", "MODIFIED", "DELETED"}, object : PodObjects]

ClusterTypes ==
    /\ pod     \in PodObjects
    /\ uids    \in Nat
    /\ version \in Nat
    /\ inbox   \in Seq(Events)
    /\ plugged \in Ports \cup {NoPort}

HandlerTypes ==
    /\ pc     \in {"idle", "request", "show", "patch", "get", "release"}
    /\ obj    \in PodObjects
    /\ hand   \in Ports \cup {NoPort}
    /\ active \in BOOLEAN
    /\ rv     \in Nat
    /\ pc \in {"show", "patch", "get", "release"} => hand \in Ports

NeutronTypes == /\ ports   \in [Ports -> {"none", "DOWN", "ACTIVE", "gone"}]
                /\ portFor \in [Ports -> Nat]

BoundTypes == /\ gaveUp \in BOOLEAN /\ touches \in Nat /\ restarts \in Nat
              /\ losses \in Nat /\ faults \in Nat

TypeOK == ClusterTypes /\ HandlerTypes /\ NeutronTypes /\ BoundTypes

Init ==
    /\ pod = Absent /\ uids = 0 /\ version = 0 /\ inbox = <<>>
    /\ pc = "idle" /\ obj = Absent /\ hand = NoPort /\ active = FALSE /\ rv = 0
    /\ ports = [p \in Ports |-> "none"] /\ portFor = [p \in Ports |-> 0]
    /\ plugged = NoPort
    /\ gaveUp = FALSE /\ touches = 0 /\ restarts = 0 /\ losses = 0 /\ faults = 0

-----------------------------------------------------------------------------
(* The cluster around the handler.                                          *)

Event(t, o) == [type |-> t, object |-> o]

\* The API stores a change of the pod and sends its watch event.
Store(t, o) ==
    LET new == [o EXCEPT !.ver = version + 1] IN
    /\ pod'     = new
    /\ version' = version + 1
    /\ inbox'   = Append(inbox, Event(t, new))

CreatePod ==
    /\ ~Exists /\ uids < MaxUid
    /\ uids' = uids + 1
    /\ \E h \in BOOLEAN :
          Store("ADDED", [Absent EXCEPT !.uid = uids + 1, !.host = h])
    /\ UNCHANGED <<handlerVars, neutronVars, plugged, boundVars>>

SchedulePod ==
    /\ Exists /\ pod.phase = "unscheduled"
    /\ Store("MODIFIED", [pod EXCEPT !.phase = "pending"])
    /\ UNCHANGED <<uids, handlerVars, neutronVars, plugged, boundVars>>

\* Somebody else changes the pod (status, labels, other annotations).
TouchPod ==
    /\ Exists /\ MayHappen
    /\ touches' = touches + 1
    /\ Store("MODIFIED", pod)
    /\ UNCHANGED <<uids, handlerVars, neutronVars, plugged, gaveUp,
                   breaks, faults>>

\* The kubelet runs the pod once the CNI driver has answered: the VIF is
\* active and plugged.
RunPod ==
    /\ Exists /\ pod.phase = "pending"
    /\ pod.host \/ (pod.active /\ plugged = pod.port)
    /\ Store("MODIFIED", [pod EXCEPT !.phase = "running"])
    /\ UNCHANGED <<uids, handlerVars, neutronVars, plugged, boundVars>>

DeletePod ==
    /\ Exists
    /\ pod'     = Absent
    /\ version' = version + 1
    /\ inbox'   = Append(inbox, Event("DELETED", [pod EXCEPT !.ver = version + 1]))
    /\ plugged' = NoPort
    /\ UNCHANGED <<uids, handlerVars, neutronVars, boundVars>>

\* The CNI driver connects the first VIF it finds in the pod's annotation.
Plug ==
    /\ Exists /\ pod.phase = "pending" /\ ~pod.host
    /\ pod.port # NoPort /\ plugged # pod.port
    /\ plugged' = pod.port
    /\ UNCHANGED <<pod, uids, version, inbox, handlerVars, neutronVars, boundVars>>

\* Neutron notices that the port is plugged.
PortUp ==
    /\ plugged # NoPort
    /\ ports[plugged] = "DOWN"
    /\ ports' = [ports EXCEPT ![plugged] = "ACTIVE"]
    /\ UNCHANGED <<pod, uids, version, inbox, handlerVars, portFor, plugged,
                   boundVars>>

-----------------------------------------------------------------------------
(* Taking an event: VIFHandler.on_present and on_deleted up to their first  *)
(* request.  The events before the k-th are skipped.                        *)

IsPending(o) == o.phase = "pending"

Take(k) ==
    /\ pc = "idle"
    /\ inbox' = SubSeq(inbox, k + 1, Len(inbox))
    /\ UNCHANGED <<pod, uids, version, neutronVars, plugged, boundVars>>

HandlerIdle ==
    /\ pc' = "idle" /\ obj' = Absent /\ hand' = NoPort
    /\ active' = FALSE /\ rv' = 0

\* Mutant: on_present leaves a pod alone as soon as it is annotated.
Present_AnyVif(o) == ~o.host /\ IsPending(o) /\ o.port = NoPort

\* on_present has something to do.
Present(o) == ~o.host /\ IsPending(o) /\ ~o.active

\* Mutant: on_deleted has the condition of on_present.
Deleted_Pending(o) == ~o.host /\ IsPending(o) /\ o.port # NoPort

\* on_deleted has something to do.
Deleted(o) == ~o.host /\ o.port # NoPort

Ignore(k) ==
    /\ Take(k)
    /\ LET e == inbox[k] IN
       IF e.type = "DELETED" THEN ~Deleted(e.object) ELSE ~Present(e.object)
    /\ UNCHANGED handlerVars

TakeRequest(k) ==
    /\ Take(k)
    /\ inbox[k].type # "DELETED"
    /\ Present(inbox[k].object)
    /\ inbox[k].object.port = NoPort
    /\ pc' = "request" /\ obj' = inbox[k].object
    /\ UNCHANGED <<hand, active, rv>>

TakeActivate(k) ==
    /\ Take(k)
    /\ inbox[k].type # "DELETED"
    /\ Present(inbox[k].object)
    /\ inbox[k].object.port # NoPort
    /\ pc' = "show" /\ obj' = inbox[k].object /\ hand' = inbox[k].object.port
    /\ UNCHANGED <<active, rv>>

\* Mutant: on_deleted releases without looking for a VIF first.
TakeRelease_NoVif(k) ==
    /\ Take(k)
    /\ inbox[k].type = "DELETED"
    /\ ~inbox[k].object.host
    /\ pc' = "release" /\ obj' = inbox[k].object /\ hand' = inbox[k].object.port
    /\ UNCHANGED <<active, rv>>

TakeRelease(k) ==
    /\ Take(k)
    /\ inbox[k].type = "DELETED"
    /\ Deleted(inbox[k].object)
    /\ pc' = "release" /\ obj' = inbox[k].object /\ hand' = inbox[k].object.port
    /\ UNCHANGED <<active, rv>>

-----------------------------------------------------------------------------
(* The driver's requests to Neutron.                                        *)

clusterVars == <<pod, uids, version, inbox, plugged, gaveUp, touches>>

\* request_vif: create_port; the VIF is to be annotated as inactive.
\* The id of a new port is one that was never used; which one does not matter.
NewPort == CHOOSE p \in Ports : ports[p] = "none"

RequestVif(p) ==
    /\ pc = "request" /\ ports[p] = "none" /\ p = NewPort
    /\ ports'   = [ports EXCEPT ![p] = "DOWN"]
    /\ portFor' = [portFor EXCEPT ![p] = obj.uid]
    /\ pc' = "patch" /\ hand' = p /\ active' = FALSE /\ rv' = obj.ver
    /\ UNCHANGED <<clusterVars, obj, breaks, faults>>

\* create_port fails (out of quota when no port is left), perhaps after the
\* port was created: no VIF, and the exception ends the handling of the event.
RequestFails ==
    /\ pc = "request"
    /\ \/ MayHappen /\ UNCHANGED neutronVars
       \/ (\A p \in Ports : ports[p] # "none") /\ UNCHANGED neutronVars
       \/ /\ MayHappen
          /\ \E p \in Ports :
                /\ ports[p] = "none" /\ p = NewPort
                /\ ports'   = [ports EXCEPT ![p] = "DOWN"]
                /\ portFor' = [portFor EXCEPT ![p] = obj.uid]
    /\ faults' = faults + 1
    /\ HandlerIdle
    /\ UNCHANGED <<clusterVars, breaks>>

\* Mutant: activate_vif does not look at the port's status.
ShowActive_AnyStatus ==
    /\ pc = "show" /\ ports[hand] \in {"DOWN", "ACTIVE"}
    /\ pc' = "patch" /\ active' = TRUE /\ rv' = obj.ver
    /\ UNCHANGED <<clusterVars, neutronVars, obj, hand, breaks, faults>>

\* activate_vif finds the port ACTIVE.  While it is not, ResourceNotReady
\* makes Retry call the handler again with the same event: `show' is kept.
ShowActive ==
    /\ pc = "show" /\ ports[hand] = "ACTIVE"
    /\ pc' = "patch" /\ active' = TRUE /\ rv' = obj.ver
    /\ UNCHANGED <<clusterVars, neutronVars, obj, hand, breaks, faults>>

\* Retry gives up; LogExceptions swallows the exception.
RetryTimeout ==
    /\ pc = "show" /\ ports[hand] = "DOWN"
    /\ gaveUp' = (gaveUp \/ pod.uid = obj.uid)
    /\ HandlerIdle
    /\ UNCHANGED <<pod, uids, version, inbox, plugged, touches, neutronVars,
                   breaks, faults>>

\* show_port finds no such port, or fails.
ShowFails ==
    /\ pc = "show"
    /\ \/ ports[hand] = "gone" /\ UNCHANGED faults
       \/ MayHappen /\ faults' = faults + 1
    /\ HandlerIdle
    /\ UNCHANGED <<clusterVars, neutronVars, breaks>>

\* release_vif: delete_port; a port that is gone already is fine.
DeletePort ==
    /\ pc = "release"
    /\ ports' = [ports EXCEPT ![hand] = "gone"]
    /\ HandlerIdle
    /\ UNCHANGED <<clusterVars, portFor, breaks, faults>>

DeleteFails ==
    /\ pc = "release"
    /\ MayHappen /\ faults' = faults + 1
    /\ HandlerIdle
    /\ UNCHANGED <<clusterVars, neutronVars, breaks>>

-----------------------------------------------------------------------------
(* K8sClient.annotate, called by _set_vif.                                  *)

annotateVars == <<uids, neutronVars, plugged, gaveUp, touches, breaks>>

Annotated == [pod EXCEPT !.port = hand, !.active = active]

\* The API merges the annotation into the pod; no change, no event.
Apply ==
    IF Annotated = pod THEN UNCHANGED <<pod, version, inbox>>
                       ELSE Store("MODIFIED", Annotated)

\* Mutant: a new VIF is released whether or not it was annotated.
PatchOk_Finally ==
    /\ pc = "patch" /\ Exists /\ pod.ver = rv
    /\ Apply
    /\ IF active THEN HandlerIdle
                 ELSE pc' = "release" /\ UNCHANGED <<obj, hand, active, rv>>
    /\ UNCHANGED <<annotateVars, faults>>

PatchOk ==
    /\ pc = "patch" /\ Exists /\ pod.ver = rv
    /\ Apply
    /\ HandlerIdle
    /\ UNCHANGED <<annotateVars, faults>>

PatchConflict ==
    /\ pc = "patch" /\ Exists /\ pod.ver # rv
    /\ pc' = "get"
    /\ UNCHANGED <<annotateVars, pod, version, inbox, obj, hand, active, rv, faults>>

\* Mutant: on_present does not catch K8sClientException.
AnnotateFails_NoRelease == HandlerIdle

\* K8sClientException: a new VIF is released; otherwise the exception ends the
\* handling of the event.
AnnotateFails ==
    IF active THEN HandlerIdle
              ELSE pc' = "release" /\ UNCHANGED <<obj, hand, active, rv>>

\* The pod is gone (404).
PatchNotFound ==
    /\ pc \in {"patch", "get"} /\ ~Exists
    /\ AnnotateFails
    /\ UNCHANGED <<annotateVars, pod, version, inbox, faults>>

\* Mutant: the annotations of the pod are not compared before the retry.
GetRetry_Overwrite ==
    /\ pc = "get" /\ Exists
    /\ pc' = "patch" /\ rv' = pod.ver
    /\ UNCHANGED <<annotateVars, pod, version, inbox, obj, hand, active, faults>>

\* After a conflict the pod has no VIF annotation, or already this one: PATCH
\* again with the new resourceVersion.
GetRetry ==
    /\ pc = "get" /\ Exists
    /\ pod.port = NoPort \/ Annotated = pod
    /\ pc' = "patch" /\ rv' = pod.ver
    /\ UNCHANGED <<annotateVars, pod, version, inbox, obj, hand, active, faults>>

\* After a conflict the pod has another VIF annotation.
GetDiffers ==
    /\ pc = "get" /\ Exists
    /\ pod.port # NoPort /\ Annotated # pod
    /\ AnnotateFails
    /\ UNCHANGED <<annotateVars, pod, version, inbox, faults>>

\* A request fails, a PATCH perhaps after it took effect: an error status is a
\* K8sClientException, a broken connection is not.
AnnotateBreaks ==
    /\ MayHappen /\ faults' = faults + 1
    /\ \/ pc \in {"patch", "get"} /\ UNCHANGED <<pod, version, inbox>>
       \/ pc = "patch" /\ Exists /\ pod.ver = rv /\ Apply
    /\ AnnotateFails \/ HandlerIdle
    /\ UNCHANGED annotateVars

-----------------------------------------------------------------------------
(* The controller restarts, the watch connection is renewed.                *)

Announced == IF Exists THEN <<Event("ADDED", pod)>> ELSE <<>>

\* A new process: the watch starts without a resourceVersion.
Restart ==
    /\ MayHappen /\ restarts' = restarts + 1
    /\ inbox' = Announced
    /\ HandlerIdle
    /\ UNCHANGED <<pod, uids, version, neutronVars, plugged, gaveUp, touches,
                   losses, faults>>

\* K8sClient.watch connects again: what came after the k-th event is lost, and
\* the pod, if it exists, is announced as ADDED.
Reconnect ==
    /\ MayHappen /\ losses' = losses + 1
    /\ \E k \in 0..Len(inbox) : inbox' = SubSeq(inbox, 1, k) \o Announced
    /\ UNCHANGED <<pod, uids, version, handlerVars, neutronVars, plugged,
                   gaveUp, touches, restarts, faults>>

\* Nothing to handle.
Quiet == pc = "idle" /\ inbox = <<>> /\ UNCHANGED vars

-----------------------------------------------------------------------------
Cluster ==
    \/ CreatePod \/ SchedulePod \/ TouchPod \/ RunPod \/ DeletePod

TakeOne(k) ==
    \/ Ignore(k) \/ TakeRequest(k) \/ TakeActivate(k) \/ TakeRelease(k)

Handler ==
    \/ \E k \in 1..Len(inbox) : TakeOne(k)
    \/ \E p \in Ports : RequestVif(p)
    \/ ShowActive \/ RetryTimeout \/ DeletePort
    \/ PatchOk \/ PatchConflict \/ PatchNotFound \/ GetRetry \/ GetDiffers

Failure ==
    \/ RequestFails \/ ShowFails \/ DeleteFails \/ AnnotateBreaks
    \/ Restart \/ Reconnect

Next == Cluster \/ Plug \/ PortUp \/ Handler \/ Failure \/ Quiet

\* The handler's thread runs, the kubelet keeps calling the CNI driver and
\* Neutron brings up a plugged port.  Users and the scheduler owe nothing.
Fairness == WF_vars(Handler \/ ShowFails) /\ WF_vars(Plug) /\ WF_vars(PortUp)

Spec     == Init /\ [][Next]_vars
FairSpec == Spec /\ Fairness

-----------------------------------------------------------------------------
(* Properties.                                                              *)

Alive(p) == ports[p] \in {"DOWN", "ACTIVE"}
Clean    == restarts = 0 /\ losses = 0 /\ faults = 0

\* While a pod lives, its annotation never moves to another port and never
\* goes back from active to inactive, whatever stale event is handled.
VifStable ==
    [][ Exists /\ pod'.uid = pod.uid /\ pod.port # NoPort
          => pod'.port = pod.port /\ (pod.active => pod'.active) ]_vars

\* A pod is shown as active only once Neutron had brought its port up.
ActiveMeansUp ==
    Exists /\ pod.active => ports[pod.port] \in {"ACTIVE", "gone"}

\* The port created for a pod and annotated on it is not deleted while the pod
\* lives, although new VIFs are released after conflicts, and restarts and
\* reconnections bring stale events.
OwnPortExists ==
    Exists /\ pod.port # NoPort /\ faults = 0 =>
      (portFor[pod.port] = pod.uid => Alive(pod.port))

\* As long as the name is not reused and nothing fails, no port is orphaned:
\* it is annotated, in the handler's hands, or in a DELETED event to come.
Accounted(p) ==
    \/ Exists /\ pod.port = p
    \/ pc \in {"patch", "get", "release"} /\ hand = p
    \/ \E i \in 1..Len(inbox) :
          inbox[i].type = "DELETED" /\ inbox[i].object.port = p

NoOrphanPort == Clean /\ uids <= 1 => \A p \in Ports : Alive(p) => Accounted(p)

\* A scheduled pod eventually has an active VIF, unless it is deleted,
\* something fails, or Retry has given up on a port that was slow to come up.
PodConnected ==
    \A u \in 1..MaxUid :
      (pod.uid = u /\ IsPending(pod) /\ ~pod.host)
        ~> (pod.uid # u \/ pod.active \/ gaveUp \/ ~Clean)

\* Once the only pod of the name is deleted, its ports are deleted too.
PortsReclaimed ==
    (uids = 1 /\ ~Exists) ~>
      ((\A p \in Ports : ~Alive(p)) \/ uids > 1 \/ ~Clean)

-----------------------------------------------------------------------------
(* What the documentation says and the code does not do.                    *)

\* Every port is accounted for even when the name of a pod is reused.
NoOrphanOnReuse == Clean => \A p \in Ports : Alive(p) => Accounted(p)

\* The port a pod is annotated with exists.
PodHasItsPort == Exists /\ pod.port # NoPort /\ Clean => Alive(pod.port)
=============================================================================
