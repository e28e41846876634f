----------------------------- MODULE PodVIF_proofs -----------------------------
(***************************************************************************)
(* Proofs about PodVIF, for any ports and any bounds.  The argument is     *)
(* about resourceVersions: what the handler, or an event it has not taken  *)
(* yet, knows of a version that is still the current one is the pod as it  *)
(* is (Known), and a PATCH that the API would accept now therefore changes *)
(* a pod without a VIF, or makes its own VIF active (Acceptable).          *)
(***************************************************************************)
EXTENDS PodVIF, TLAPS

USE NoPortAssumption, BoundAssumption

\* What is known of one object: its version was given out, and if it is the
\* version of the existing pod, it is that pod.
Genuine(o) == o.ver <= version /\ (Exists /\ o.ver = pod.ver => o = pod)

Known == /\ Exists => pod.ver \in 1..version
         /\ Genuine(obj)
         /\ \A i \in 1..Len(inbox) : Genuine(inbox[i].object)

Branch == /\ pc = "request" => obj.port = NoPort
          /\ pc = "show" => obj.port = hand

\* A PATCH that would be accepted now.
Acceptable ==
    /\ pc = "patch" => rv <= version
    /\ pc = "patch" /\ Exists /\ rv = pod.ver =>
         pod.port = NoPort \/ (pod.port = hand /\ (pod.active => active))

Up(p) == p \in Ports /\ ports[p] \in {"ACTIVE", "gone"}

ActiveUp == /\ pod.active => Up(pod.port)
            /\ pc \in {"patch", "get"} /\ active => Up(hand)

IndInv == TypeOK /\ Known /\ Branch /\ Acceptable /\ ActiveUp

-----------------------------------------------------------------------------
(* Sequences of events.                                                     *)

\* Skipping the events before the k-th leaves events of the inbox.
LEMMA TailOfInbox ==
    ASSUME NEW q \in Seq(Events), NEW k \in 1..Len(q)
    PROVE  /\ SubSeq(q, k + 1, Len(q)) \in Seq(Events)
           /\ \A i \in 1..Len(SubSeq(q, k + 1, Len(q))) :
                 \E j \in 1..Len(q) : SubSeq(q, k + 1, Len(q))[i] = q[j]
OBVIOUS

\* What is left of the inbox when the connection breaks, and the new start.
LEMMA HeadOfInbox ==
    ASSUME NEW q \in Seq(Events), NEW k \in 0..Len(q), NEW r \in Seq(Events),
           NEW s, s = SubSeq(q, 1, k) \o r
    PROVE  /\ s \in Seq(Events)
           /\ \A i \in 1..Len(s) : \/ \E j \in 1..Len(q) : s[i] = q[j]
                                   \/ \E j \in 1..Len(r) : s[i] = r[j]
<1>1. PICK h : h = SubSeq(q, 1, k)
  OBVIOUS
<1>2. h \in Seq(Events) /\ Len(h) = k /\ \A i \in 1..k : h[i] = q[i]
  BY <1>1
<1>3. s \in Seq(Events) /\ Len(s) = k + Len(r)
  BY <1>1, <1>2
<1>4. ASSUME NEW i \in 1..Len(s)
      PROVE  \/ \E j \in 1..Len(q) : s[i] = q[j]
             \/ \E j \in 1..Len(r) : s[i] = r[j]
  <2>1. CASE i <= k
    <3>1. s[i] = q[i] /\ i \in 1..Len(q)
      BY <1>1, <1>2, <2>1
    <3> QED
      BY <3>1
  <2>2. CASE i > k
    <3>1. s[i] = r[i - k] /\ i - k \in 1..Len(r)
      BY <1>1, <1>2, <1>3, <2>2
    <3> QED
      BY <3>1
  <2> QED
    BY <1>3, <2>1, <2>2
<1> QED
  BY <1>3, <1>4

\* What a new start of the watch announces.
LEMMA AnnouncedEvents ==
    ASSUME pod \in PodObjects
    PROVE  /\ Announced \in Seq(Events)
           /\ \A j \in 1..Len(Announced) : Announced[j].object = pod
<1>1. [type |-> "ADDED", object |-> pod] \in Events
  BY DEF Events
<1>2. CASE Exists
  BY <1>1, <1>2 DEF Announced, Event
<1>3. CASE ~Exists
  BY <1>3 DEF Announced
<1> QED
  BY <1>2, <1>3

-----------------------------------------------------------------------------
(* Types.                                                                   *)

\* What a step leaves alone keeps its types.
LEMMA ClusterFrame ==
    ASSUME ClusterTypes, UNCHANGED <<pod, uids, version, inbox, plugged>>
    PROVE  ClusterTypes'
BY DEF ClusterTypes

LEMMA HandlerFrame ==
    ASSUME HandlerTypes, UNCHANGED handlerVars
    PROVE  HandlerTypes'
BY DEF HandlerTypes, handlerVars

LEMMA NeutronFrame ==
    ASSUME NeutronTypes, UNCHANGED neutronVars
    PROVE  NeutronTypes'
BY DEF NeutronTypes, neutronVars

LEMMA BoundFrame ==
    ASSUME BoundTypes, UNCHANGED boundVars
    PROVE  BoundTypes'
BY DEF BoundTypes, boundVars, breaks

LEMMA IdleTypes ==
    ASSUME HandlerIdle
    PROVE  HandlerTypes'
BY DEF HandlerIdle, HandlerTypes, Absent, PodObjects, Phases

\* The API stores a pod object and its event.
LEMMA StoreTypes ==
    ASSUME ClusterTypes, NEW t \in {"ADDED", "MODIFIED"}, NEW o \in PodObjects,
           Store(t, o)
    PROVE  /\ pod' \in PodObjects /\ version' \in Nat
           /\ inbox' \in Seq(Events)
<1> DEFINE new == [o EXCEPT !.ver = version + 1]
<1>1. version + 1 \in Nat
  BY DEF ClusterTypes
<1>2. new \in PodObjects
  BY <1>1 DEF PodObjects
<1>3. [type |-> t, object |-> new] \in Events
  BY <1>2 DEF Events
<1>4. Append(inbox, [type |-> t, object |-> new]) \in Seq(Events)
  BY <1>3 DEF ClusterTypes
<1> QED
  BY <1>1, <1>2, <1>4 DEF Store, Event

\* Users, the scheduler and the kubelet.
LEMMA ClusterTypesStep ==
    ASSUME TypeOK, Cluster
    PROVE  ClusterTypes'
<1>0. ClusterTypes /\ pod \in PodObjects /\ uids \in Nat /\ version \in Nat
  BY DEF TypeOK, ClusterTypes
<1>1. CASE CreatePod
  <2>1. PICK h \in BOOLEAN : Store("ADDED", [Absent EXCEPT !.uid = uids + 1, !.host = h])
    BY <1>1 DEF CreatePod
  <2>2. [Absent EXCEPT !.uid = uids + 1, !.host = h] \in PodObjects
    <3>1. Absent \in PodObjects
      BY DEF Absent, PodObjects, Phases
    <3>2. uids + 1 \in Nat
      BY <1>0
    <3> QED
      BY <3>1, <3>2 DEF PodObjects
  <2>3. /\ pod' \in PodObjects /\ version' \in Nat /\ inbox' \in Seq(Events)
    BY <1>0, <2>1, <2>2, StoreTypes
  <2> QED
    BY <1>0, <1>1, <2>3 DEF CreatePod, ClusterTypes
<1>2. CASE SchedulePod
  <2>1. [pod EXCEPT !.phase = "pending"] \in PodObjects
    BY <1>0 DEF PodObjects, Phases
  <2>2. /\ pod' \in PodObjects /\ version' \in Nat /\ inbox' \in Seq(Events)
    BY <1>0, <1>2, <2>1, StoreTypes DEF SchedulePod
  <2> QED
    BY <1>0, <1>2, <2>2 DEF SchedulePod, ClusterTypes
<1>3. CASE TouchPod
  <2>1. /\ pod' \in PodObjects /\ version' \in Nat /\ inbox' \in Seq(Events)
    BY <1>0, <1>3, StoreTypes DEF TouchPod
  <2> QED
    BY <1>0, <1>3, <2>1 DEF TouchPod, ClusterTypes
<1>4. CASE RunPod
  <2>1. [pod EXCEPT !.phase = "running"] \in PodObjects
    BY <1>0 DEF PodObjects, Phases
  <2>2. /\ pod' \in PodObjects /\ version' \in Nat /\ inbox' \in Seq(Events)
    BY <1>0, <1>4, <2>1, StoreTypes DEF RunPod
  <2> QED
    BY <1>0, <1>4, <2>2 DEF RunPod, ClusterTypes
<1>5. CASE DeletePod
  <2>1. [pod EXCEPT !.ver = version + 1] \in PodObjects /\ Absent \in PodObjects
    BY <1>0 DEF PodObjects, Phases, Absent
  <2>2. [type |-> "DELETED", object |-> [pod EXCEPT !.ver = version + 1]] \in Events
    BY <2>1 DEF Events
  <2>3. inbox' \in Seq(Events)
    BY <1>0, <1>5, <2>2 DEF DeletePod, Event, ClusterTypes
  <2> QED
    BY <1>0, <1>5, <2>1, <2>3 DEF DeletePod, ClusterTypes
<1> QED
  BY <1>1, <1>2, <1>3, <1>4, <1>5 DEF Cluster

\* The handler takes an event.
LEMMA TakeTypes ==
    ASSUME TypeOK, NEW k \in 1..Len(inbox), TakeOne(k)
    PROVE  TypeOK'
<1>0. ClusterTypes /\ HandlerTypes /\ NeutronTypes /\ BoundTypes /\ inbox \in Seq(Events)
  BY DEF TypeOK, ClusterTypes
<1>1. Take(k)
  BY DEF TakeOne, Ignore, TakeRequest, TakeActivate, TakeRelease
<1>2. inbox' \in Seq(Events) /\ inbox[k] \in Events
  BY <1>0, <1>1, TailOfInbox DEF Take
<1>3. inbox[k].object \in PodObjects
  BY <1>2 DEF Events
<1>4. ClusterTypes' /\ NeutronTypes' /\ BoundTypes'
  <2>1. ClusterTypes'
    BY <1>0, <1>1, <1>2 DEF Take, ClusterTypes
  <2> QED
    BY <1>0, <1>1, <2>1, NeutronFrame, BoundFrame DEF Take
<1>5. HandlerTypes'
  <2>1. CASE Ignore(k)
    BY <1>0, <2>1, HandlerFrame DEF Ignore
  <2>2. CASE TakeRequest(k)
    BY <1>0, <1>3, <2>2 DEF TakeRequest, HandlerTypes
  <2>3. inbox[k].object.port \in Ports \cup {NoPort}
    BY <1>3 DEF PodObjects
  <2>4. CASE TakeActivate(k)
    BY <1>0, <1>3, <2>3, <2>4 DEF TakeActivate, HandlerTypes
  <2>5. CASE TakeRelease(k)
    BY <1>0, <1>3, <2>3, <2>5 DEF TakeRelease, Deleted, HandlerTypes
  <2> QED
    BY <2>1, <2>2, <2>4, <2>5 DEF TakeOne
<1> QED
  BY <1>4, <1>5 DEF TypeOK

\* The requests to Neutron leave the pod and its events alone.
DriverStep ==
    \/ \E p \in Ports : RequestVif(p)
    \/ RequestFails \/ ShowActive \/ RetryTimeout \/ ShowFails
    \/ DeletePort \/ DeleteFails

LEMMA DriverFrame ==
    ASSUME DriverStep
    PROVE  UNCHANGED <<pod, uids, version, inbox, plugged>>
BY DEF DriverStep, RequestVif, RequestFails, ShowActive, RetryTimeout, ShowFails,
       DeletePort, DeleteFails, clusterVars

LEMMA DriverTypes ==
    ASSUME TypeOK, DriverStep
    PROVE  TypeOK'
<1>0. ClusterTypes /\ HandlerTypes /\ NeutronTypes /\ BoundTypes
  BY DEF TypeOK
<1>1. ClusterTypes'
  BY <1>0, DriverFrame, ClusterFrame
<1>2. BoundTypes'
  <2>1. /\ UNCHANGED <<touches, restarts, losses>>
        /\ UNCHANGED faults \/ faults' = faults + 1
        /\ UNCHANGED gaveUp \/ gaveUp' = (gaveUp \/ pod.uid = obj.uid)
    BY DEF DriverStep, RequestVif, RequestFails, ShowActive, RetryTimeout, ShowFails,
           DeletePort, DeleteFails, clusterVars, breaks
  <2>2. gaveUp' \in BOOLEAN
    BY <1>0, <2>1, Zenon DEF BoundTypes
  <2>3. touches' \in Nat /\ restarts' \in Nat /\ losses' \in Nat /\ faults' \in Nat
    BY <1>0, <2>1 DEF BoundTypes
  <2> QED
    BY <2>2, <2>3 DEF BoundTypes
<1>3. NeutronTypes'
  <2>1. ASSUME NEW p \in Ports, NEW s \in {"DOWN", "gone"}, NEW u \in Nat
        PROVE  /\ [ports EXCEPT ![p] = s] \in [Ports -> {"none", "DOWN", "ACTIVE", "gone"}]
               /\ [portFor EXCEPT ![p] = u] \in [Ports -> Nat]
    BY <1>0 DEF NeutronTypes
  <2>2. obj.uid \in Nat
    BY <1>0 DEF HandlerTypes, PodObjects
  <2>3. pc = "release" => hand \in Ports
    BY <1>0 DEF HandlerTypes
  <2>4. CASE \E p \in Ports : RequestVif(p)
    BY <2>1, <2>2, <2>4 DEF RequestVif, NeutronTypes
  <2>5. CASE RequestFails
    BY <1>0, <2>1, <2>2, <2>5 DEF RequestFails, NeutronTypes, neutronVars
  <2>6. CASE DeletePort
    BY <1>0, <2>1, <2>3, <2>6 DEF DeletePort, NeutronTypes
  <2> QED
    BY <1>0, <2>4, <2>5, <2>6, NeutronFrame
       DEF DriverStep, ShowActive, RetryTimeout, ShowFails, DeleteFails
<1>4. HandlerTypes'
  <2>1. obj.ver \in Nat
    BY <1>0 DEF HandlerTypes, PodObjects
  <2>2. CASE \E p \in Ports : RequestVif(p)
    BY <1>0, <2>1, <2>2 DEF RequestVif, HandlerTypes
  <2>3. CASE ShowActive
    BY <1>0, <2>1, <2>3 DEF ShowActive, HandlerTypes
  <2> QED
    BY <2>2, <2>3, IdleTypes
       DEF DriverStep, RequestFails, RetryTimeout, ShowFails, DeletePort, DeleteFails
<1> QED
  BY <1>1, <1>2, <1>3, <1>4 DEF TypeOK

\* The requests of K8sClient.annotate leave Neutron alone.
AnnotateStep ==
    \/ PatchOk \/ PatchConflict \/ PatchNotFound \/ GetRetry \/ GetDiffers
    \/ AnnotateBreaks

LEMMA AnnotateTypes ==
    ASSUME TypeOK, AnnotateStep
    PROVE  TypeOK'
<1>0. /\ ClusterTypes /\ HandlerTypes /\ NeutronTypes /\ BoundTypes
      /\ pc \in {"patch", "get"} /\ hand \in Ports /\ active \in BOOLEAN
  BY DEF TypeOK, AnnotateStep, PatchOk, PatchConflict, PatchNotFound, GetRetry,
         GetDiffers, AnnotateBreaks, HandlerTypes
<1>1. /\ Apply \/ UNCHANGED <<pod, version, inbox>>
      /\ UNCHANGED annotateVars
      /\ UNCHANGED faults \/ faults' = faults + 1
  BY DEF AnnotateStep, PatchOk, PatchConflict, PatchNotFound, GetRetry,
         GetDiffers, AnnotateBreaks
<1>2. ClusterTypes'
  <2>1. Annotated \in PodObjects
    BY <1>0 DEF Annotated, ClusterTypes, PodObjects
  <2>2. /\ pod' \in PodObjects /\ version' \in Nat /\ inbox' \in Seq(Events)
    BY <1>0, <1>1, <2>1, StoreTypes DEF Apply, ClusterTypes
  <2> QED
    BY <1>0, <1>1, <2>2 DEF annotateVars, ClusterTypes
<1>3. NeutronTypes'
  BY <1>0, <1>1, NeutronFrame DEF annotateVars
<1>4. BoundTypes'
  BY <1>0, <1>1 DEF annotateVars, breaks, BoundTypes
<1>5. HandlerTypes'
  <2>1. ASSUME AnnotateFails \/ HandlerIdle
        PROVE  HandlerTypes'
    <3>1. CASE HandlerIdle
      BY <3>1, IdleTypes
    <3>2. CASE pc' = "release" /\ UNCHANGED <<obj, hand, active, rv>>
      BY <1>0, <3>2 DEF HandlerTypes
    <3> QED
      BY <2>1, <3>1, <3>2 DEF AnnotateFails
  <2>2. CASE PatchConflict
    BY <1>0, <2>2 DEF PatchConflict, HandlerTypes
  <2>3. CASE GetRetry
    <3>1. pod.ver \in Nat
      BY <1>0 DEF ClusterTypes, PodObjects
    <3> QED
      BY <1>0, <2>3, <3>1 DEF GetRetry, HandlerTypes
  <2> QED
    BY <2>1, <2>2, <2>3 DEF AnnotateStep, PatchOk, PatchNotFound, GetDiffers, AnnotateBreaks
<1> QED
  BY <1>2, <1>3, <1>4, <1>5 DEF TypeOK

\* Every step keeps the types.
LEMMA TypeStep ==
    ASSUME TypeOK, [Next]_vars
    PROVE  TypeOK'
<1>0. ClusterTypes /\ HandlerTypes /\ NeutronTypes /\ BoundTypes
  BY DEF TypeOK
<1>1. CASE Cluster
  <2>1. UNCHANGED handlerVars /\ UNCHANGED neutronVars
    BY <1>1 DEF Cluster, CreatePod, SchedulePod, TouchPod, RunPod, DeletePod
  <2>2. BoundTypes'
    <3>1. /\ UNCHANGED <<gaveUp, restarts, losses, faults>>
          /\ UNCHANGED touches \/ touches' = touches + 1
      BY <1>1 DEF Cluster, CreatePod, SchedulePod, TouchPod, RunPod, DeletePod, boundVars, breaks
    <3> QED
      BY <1>0, <3>1 DEF BoundTypes
  <2> QED
    BY <1>0, <1>1, <2>1, <2>2, ClusterTypesStep, HandlerFrame, NeutronFrame DEF TypeOK
<1>2. CASE Plug
  <2>1. pod.port \in Ports \cup {NoPort}
    BY <1>0 DEF ClusterTypes, PodObjects
  <2>2. ClusterTypes'
    BY <1>0, <1>2, <2>1 DEF Plug, ClusterTypes
  <2> QED
    BY <1>0, <1>2, <2>2, HandlerFrame, NeutronFrame, BoundFrame DEF Plug, TypeOK
<1>3. CASE PortUp
  <2>1. ClusterTypes' /\ HandlerTypes' /\ BoundTypes'
    BY <1>0, <1>3, ClusterFrame, HandlerFrame, BoundFrame DEF PortUp
  <2>2. NeutronTypes'
    BY <1>0, <1>3 DEF PortUp, NeutronTypes
  <2> QED
    BY <2>1, <2>2 DEF TypeOK
<1>4. CASE Handler \/ Failure
  <2>1. Announced \in Seq(Events)
    BY <1>0, AnnouncedEvents DEF ClusterTypes
  <2>2. CASE Restart
    <3>1. ClusterTypes'
      BY <1>0, <2>1, <2>2 DEF Restart, ClusterTypes
    <3>2. BoundTypes'
      BY <1>0, <2>2 DEF Restart, BoundTypes
    <3> QED
      BY <1>0, <2>2, <3>1, <3>2, IdleTypes, NeutronFrame DEF Restart, TypeOK
  <2>3. CASE Reconnect
    <3>1. inbox' \in Seq(Events)
      BY <1>0, <2>1, <2>3, HeadOfInbox DEF Reconnect, ClusterTypes
    <3>2. ClusterTypes'
      BY <1>0, <2>3, <3>1 DEF Reconnect, ClusterTypes
    <3>3. BoundTypes'
      BY <1>0, <2>3 DEF Reconnect, BoundTypes
    <3> QED
      BY <1>0, <2>3, <3>2, <3>3, HandlerFrame, NeutronFrame DEF Reconnect, TypeOK
  <2> QED
    BY <1>4, <2>2, <2>3, TakeTypes, DriverTypes, AnnotateTypes
       DEF Handler, Failure, DriverStep, AnnotateStep
<1>5. CASE UNCHANGED vars
  BY <1>0, <1>5, ClusterFrame, HandlerFrame, NeutronFrame, BoundFrame DEF vars, TypeOK
<1> QED
  BY <1>1, <1>2, <1>3, <1>4, <1>5 DEF Next, Quiet

-----------------------------------------------------------------------------
(* Versions.                                                                *)

\* The handler's object is replaced by Absent, or stays.
LEMMA KnownFrame ==
    ASSUME TypeOK, Known, UNCHANGED <<pod, version, inbox>>, obj' \in {obj, Absent}
    PROVE  Known'
<1>1. version \in Nat /\ Absent.ver = 0
  BY DEF TypeOK, ClusterTypes, Absent
<1>2. Genuine(obj)'
  BY <1>1 DEF Known, Genuine, Exists
<1> QED
  BY <1>2 DEF Known, Genuine, Exists

\* The handler takes the object of an event.
LEMMA KnownTake ==
    ASSUME TypeOK, Known, NEW k \in 1..Len(inbox), TakeOne(k)
    PROVE  Known'
<1>1. /\ UNCHANGED <<pod, version>>
      /\ inbox' = SubSeq(inbox, k + 1, Len(inbox))
      /\ obj' \in {obj, inbox[k].object}
  BY DEF TakeOne, Ignore, TakeRequest, TakeActivate, TakeRelease, Take, handlerVars
<1>2. inbox \in Seq(Events)
  BY DEF TypeOK, ClusterTypes
<1>3. \A i \in 1..Len(inbox') : \E j \in 1..Len(inbox) : inbox'[i] = inbox[j]
  BY <1>1, <1>2, TailOfInbox
<1>4. Genuine(obj) /\ \A i \in 1..Len(inbox) : Genuine(inbox[i].object)
  BY DEF Known
<1>5. Genuine(obj)'
  BY <1>1, <1>4 DEF Genuine, Exists
<1>6. ASSUME NEW i \in 1..Len(inbox')
      PROVE  Genuine(inbox[i].object)'
  <2>1. PICK j \in 1..Len(inbox) : inbox'[i] = inbox[j]
    BY <1>3
  <2> QED
    BY <1>1, <1>4, <2>1 DEF Genuine, Exists
<1> QED
  BY <1>1, <1>5, <1>6 DEF Known, Exists

\* Events known before remain so when the API moves on to a new version, and
\* so does a new event with the object of that version.
LEMMA KnownNewVersion ==
    ASSUME TypeOK, Known, version' = version + 1,
           pod' = Absent \/ pod'.ver = version + 1,
           obj' \in {obj, Absent},
           NEW e, inbox' = Append(inbox, e), e.object.ver = version + 1,
           Exists' => e.object = pod'
    PROVE  Known'
<1>1. /\ version \in Nat /\ inbox \in Seq(Events) /\ Absent.ver = 0 /\ Absent.uid = 0
      /\ obj.ver \in Nat
  BY DEF TypeOK, ClusterTypes, HandlerTypes, PodObjects, Absent
<1>2. Exists' => pod'.ver \in 1..version'
  BY <1>1 DEF Exists
<1>3. Genuine(obj)'
  <2>1. obj.ver <= version
    BY DEF Known, Genuine
  <2> QED
    BY <1>1, <2>1 DEF Genuine, Exists
<1>4. ASSUME NEW i \in 1..Len(inbox')
      PROVE  Genuine(inbox[i].object)'
  <2>1. CASE i \in 1..Len(inbox)
    <3>1. inbox'[i] = inbox[i]
      BY <1>1, <2>1
    <3>2. inbox[i].object.ver <= version /\ inbox[i].object.ver \in Nat
      <4>1. inbox[i] \in Events
        BY <1>1, <2>1
      <4>2. inbox[i].object.ver \in Nat
        BY <4>1 DEF Events, PodObjects
      <4> QED
        BY <2>1, <4>2 DEF Known, Genuine
    <3> QED
      BY <1>1, <3>1, <3>2 DEF Genuine, Exists
  <2>2. CASE i = Len(inbox) + 1
    <3>1. inbox'[i] = e
      BY <1>1, <2>2
    <3> QED
      BY <1>1, <3>1 DEF Genuine, Exists
  <2> QED
    BY <1>1, <2>1, <2>2
<1> QED
  BY <1>2, <1>3, <1>4 DEF Known

LEMMA KnownStore ==
    ASSUME TypeOK, Known, NEW t, NEW o \in PodObjects, Store(t, o),
           obj' \in {obj, Absent}
    PROVE  Known'
<1> DEFINE new == [o EXCEPT !.ver = version + 1]
<1>1. new.ver = version + 1
  BY DEF PodObjects
<1>2. pod' = new /\ version' = version + 1 /\ inbox' = Append(inbox, [type |-> t, object |-> new])
  BY DEF Store, Event
<1>3. [type |-> t, object |-> new].object = new
  OBVIOUS
<1> QED
  BY <1>1, <1>2, <1>3, KnownNewVersion

LEMMA KnownDelete ==
    ASSUME TypeOK, Known, DeletePod
    PROVE  Known'
<1> DEFINE old == [pod EXCEPT !.ver = version + 1]
<1>1. old.ver = version + 1
  BY DEF TypeOK, ClusterTypes, PodObjects
<1>2. /\ pod' = Absent /\ version' = version + 1
      /\ inbox' = Append(inbox, [type |-> "DELETED", object |-> old])
      /\ UNCHANGED obj
  BY DEF DeletePod, Event, handlerVars
<1>3. [type |-> "DELETED", object |-> old].object = old
  OBVIOUS
<1>4. ~Exists'
  BY <1>2 DEF Exists, Absent
<1> QED
  BY <1>1, <1>2, <1>3, <1>4, KnownNewVersion

\* A new start of the watch announces the pod as it is.
LEMMA KnownAnnounced ==
    ASSUME TypeOK, Known, UNCHANGED <<pod, version>>, obj' \in {obj, Absent},
           NEW k \in 0..Len(inbox), inbox' = SubSeq(inbox, 1, k) \o Announced
    PROVE  Known'
<1>1. /\ version \in Nat /\ inbox \in Seq(Events) /\ Absent.ver = 0
      /\ pod \in PodObjects
  BY DEF TypeOK, ClusterTypes, Absent
<1>2. Announced \in Seq(Events) /\ \A j \in 1..Len(Announced) : Announced[j].object = pod
  BY <1>1, AnnouncedEvents
<1>3. Genuine(obj)'
  BY <1>1 DEF Known, Genuine, Exists
<1>4. ASSUME NEW i \in 1..Len(inbox')
      PROVE  Genuine(inbox[i].object)'
  <2>1. \/ \E j \in 1..Len(inbox) : inbox'[i] = inbox[j]
        \/ \E j \in 1..Len(Announced) : inbox'[i] = Announced[j]
    <3>1. inbox \in Seq(Events) /\ Announced \in Seq(Events)
      BY <1>1, <1>2
    <3>2. PICK s : s = inbox'
      OBVIOUS
    <3>3. s = SubSeq(inbox, 1, k) \o Announced
      BY <3>2
    <3>4. \A n \in 1..Len(s) : \/ \E j \in 1..Len(inbox) : s[n] = inbox[j]
                               \/ \E j \in 1..Len(Announced) : s[n] = Announced[j]
      BY <3>1, <3>3, HeadOfInbox
    <3> QED
      BY <3>2, <3>4
  <2>2. CASE \E j \in 1..Len(inbox) : inbox'[i] = inbox[j]
    BY <2>2 DEF Known, Genuine, Exists
  <2>3. CASE \E j \in 1..Len(Announced) : inbox'[i] = Announced[j]
    <3>1. inbox'[i].object = pod /\ Announced # <<>>
      BY <1>2, <2>3
    <3>2. Exists
      BY <3>1 DEF Announced
    <3> QED
      BY <1>1, <3>1, <3>2 DEF Known, Genuine, Exists
  <2> QED
    BY <2>1, <2>2, <2>3
<1> QED
  BY <1>3, <1>4 DEF Known, Exists

LEMMA KnownStep ==
    ASSUME TypeOK, Known, [Next]_vars
    PROVE  Known'
<1>0. /\ pod \in PodObjects /\ uids \in Nat /\ inbox \in Seq(Events)
      /\ pc \in {"patch", "get"} => hand \in Ports
      /\ active \in BOOLEAN
  BY DEF TypeOK, ClusterTypes, HandlerTypes
<1>1. CASE CreatePod
  <2>1. PICK h \in BOOLEAN : Store("ADDED", [Absent EXCEPT !.uid = uids + 1, !.host = h])
    BY <1>1 DEF CreatePod
  <2>2. Absent \in PodObjects
    BY DEF Absent, PodObjects, Phases
  <2>3. [Absent EXCEPT !.uid = uids + 1, !.host = h] \in PodObjects
    <3>1. uids + 1 \in Nat
      BY <1>0
    <3> QED
      BY <2>2, <3>1 DEF PodObjects
  <2> QED
    BY <1>1, <2>1, <2>3, KnownStore DEF CreatePod, handlerVars
<1>2. CASE SchedulePod
  <2>1. [pod EXCEPT !.phase = "pending"] \in PodObjects
    BY <1>0 DEF PodObjects, Phases
  <2> QED
    BY <1>2, <2>1, KnownStore DEF SchedulePod, handlerVars
<1>3. CASE TouchPod
  BY <1>0, <1>3, KnownStore DEF TouchPod, handlerVars
<1>4. CASE RunPod
  <2>1. [pod EXCEPT !.phase = "running"] \in PodObjects
    BY <1>0 DEF PodObjects, Phases
  <2> QED
    BY <1>4, <2>1, KnownStore DEF RunPod, handlerVars
<1>5. CASE DeletePod
  BY <1>5, KnownDelete
<1>6. CASE Plug \/ PortUp \/ UNCHANGED vars
  BY <1>6, KnownFrame DEF Plug, PortUp, vars, handlerVars
<1>7. CASE \E k \in 1..Len(inbox) : TakeOne(k)
  BY <1>7, KnownTake
<1>8. CASE DriverStep
  <2>1. UNCHANGED <<pod, version, inbox>>
    BY <1>8, DriverFrame
  <2>2. obj' \in {obj, Absent}
    BY <1>8 DEF DriverStep, RequestVif, RequestFails, ShowActive, RetryTimeout,
                ShowFails, DeletePort, DeleteFails, HandlerIdle
  <2> QED
    BY <2>1, <2>2, KnownFrame
<1>9. CASE AnnotateStep
  <2>1. obj' \in {obj, Absent} /\ pc \in {"patch", "get"}
    BY <1>9 DEF AnnotateStep, PatchOk, PatchConflict, PatchNotFound, GetRetry,
                GetDiffers, AnnotateBreaks, AnnotateFails, HandlerIdle
  <2>2. Apply \/ UNCHANGED <<pod, version, inbox>>
    BY <1>9 DEF AnnotateStep, PatchOk, PatchConflict, PatchNotFound, GetRetry,
                GetDiffers, AnnotateBreaks
  <2>3. Annotated \in PodObjects
    BY <1>0, <2>1 DEF Annotated, PodObjects
  <2> QED
    BY <2>1, <2>2, <2>3, KnownStore, KnownFrame DEF Apply
<1>10. CASE Restart
  <2>1. inbox' = SubSeq(inbox, 1, 0) \o Announced
    <3>1. SubSeq(inbox, 1, 0) = <<>>
      BY <1>0
    <3>2. Announced \in Seq(Events)
      BY <1>0, AnnouncedEvents
    <3> QED
      BY <1>10, <3>1, <3>2 DEF Restart
  <2>2. 0 \in 0..Len(inbox)
    BY <1>0
  <2>3. UNCHANGED <<pod, version>> /\ obj' \in {obj, Absent}
    BY <1>10 DEF Restart, HandlerIdle
  <2> QED
    BY <2>1, <2>2, <2>3, KnownAnnounced
<1>11. CASE Reconnect
  BY <1>11, KnownAnnounced DEF Reconnect, handlerVars
<1> QED
  BY <1>1, <1>2, <1>3, <1>4, <1>5, <1>6, <1>7, <1>8, <1>9, <1>10, <1>11
     DEF Next, Cluster, Handler, Failure, Quiet, DriverStep, AnnotateStep

-----------------------------------------------------------------------------
(* The handler's branches and its PATCH.                                    *)

LEMMA BranchStep ==
    ASSUME Branch, [Next]_vars
    PROVE  Branch'
<1>1. CASE Cluster \/ Plug \/ PortUp \/ Reconnect \/ UNCHANGED vars
  BY <1>1 DEF Cluster, CreatePod, SchedulePod, TouchPod, RunPod, DeletePod, Plug,
              PortUp, Reconnect, vars, handlerVars, Branch
<1>2. ASSUME NEW k \in 1..Len(inbox), TakeOne(k)
      PROVE  Branch'
  BY <1>2 DEF TakeOne, Ignore, TakeRequest, TakeActivate, TakeRelease, Take,
              handlerVars, Branch
<1>3. CASE DriverStep
  BY <1>3 DEF DriverStep, RequestVif, RequestFails, ShowActive, RetryTimeout,
              ShowFails, DeletePort, DeleteFails, HandlerIdle, Branch
<1>4. CASE AnnotateStep
  BY <1>4 DEF AnnotateStep, PatchOk, PatchConflict, PatchNotFound, GetRetry,
              GetDiffers, AnnotateBreaks, AnnotateFails, HandlerIdle, Branch
<1>5. CASE Restart
  BY <1>5 DEF Restart, HandlerIdle, Branch
<1> QED
  BY <1>1, <1>2, <1>3, <1>4, <1>5
     DEF Next, Handler, Failure, Quiet, DriverStep, AnnotateStep

LEMMA AcceptableStep ==
    ASSUME TypeOK, Known, Branch, Acceptable, [Next]_vars
    PROVE  Acceptable'
<1>0. /\ version \in Nat /\ rv \in Nat /\ pod \in PodObjects /\ obj.ver \in Nat
      /\ pod.ver \in Nat
  BY DEF TypeOK, ClusterTypes, HandlerTypes, PodObjects
<1>1. CASE CreatePod \/ SchedulePod \/ TouchPod \/ RunPod
  <2>1. /\ \E t, o : o \in PodObjects /\ Store(t, o)
        /\ UNCHANGED <<pc, hand, active, rv>>
    <3>1. ASSUME CreatePod
          PROVE  \E o \in PodObjects : Store("ADDED", o)
      <4>1. PICK h \in BOOLEAN : Store("ADDED", [Absent EXCEPT !.uid = uids + 1, !.host = h])
        BY <3>1 DEF CreatePod
      <4>2. Absent \in PodObjects /\ uids + 1 \in Nat
        BY DEF Absent, PodObjects, Phases, TypeOK, ClusterTypes
      <4>3. [Absent EXCEPT !.uid = uids + 1, !.host = h] \in PodObjects
        BY <4>2 DEF PodObjects
      <4> QED
        BY <4>1, <4>3
    <3>2. /\ [pod EXCEPT !.phase = "pending"] \in PodObjects
          /\ [pod EXCEPT !.phase = "running"] \in PodObjects
      BY <1>0 DEF PodObjects, Phases
    <3> QED
      BY <1>0, <1>1, <3>1, <3>2
         DEF CreatePod, SchedulePod, TouchPod, RunPod, handlerVars
  <2>2. version' = version + 1 /\ pod'.ver = version + 1
    BY <2>1 DEF Store, PodObjects
  <2> QED
    BY <1>0, <2>1, <2>2 DEF Acceptable
<1>2. CASE DeletePod
  BY <1>0, <1>2 DEF DeletePod, Acceptable, handlerVars, Absent, Exists
<1>3. CASE Plug \/ PortUp \/ Reconnect \/ UNCHANGED vars
  BY <1>3 DEF Plug, PortUp, Reconnect, vars, handlerVars, Acceptable, Exists
<1>4. ASSUME NEW k \in 1..Len(inbox), TakeOne(k)
      PROVE  Acceptable'
  BY <1>4 DEF TakeOne, Ignore, TakeRequest, TakeActivate, TakeRelease, Take,
              handlerVars, Acceptable
<1>5. CASE DriverStep
  <2>1. UNCHANGED <<pod, version>>
    BY <1>5, DriverFrame
  <2>2. Genuine(obj)
    BY DEF Known
  <2>3. CASE \E p \in Ports : RequestVif(p)
    BY <2>1, <2>2, <2>3 DEF RequestVif, Genuine, Branch, Acceptable, Exists
  <2>4. CASE ShowActive
    BY <2>1, <2>2, <2>4 DEF ShowActive, Genuine, Branch, Acceptable, Exists
  <2>5. CASE ~(\E p \in Ports : RequestVif(p)) /\ ~ShowActive
    BY <1>5, <2>5 DEF DriverStep, RequestFails, RetryTimeout, ShowFails, DeletePort,
                      DeleteFails, HandlerIdle, Acceptable
  <2> QED
    BY <2>3, <2>4, <2>5
<1>6. CASE GetRetry
  <2>1. /\ pod.ver <= version
        /\ pod.port = NoPort \/ (pod.port = hand /\ pod.active = active)
    <3>1. pod.port = NoPort \/ Annotated = pod
      BY <1>6 DEF GetRetry
    <3>2. Annotated = pod => pod.port = hand /\ pod.active = active
      BY <1>0 DEF Annotated, PodObjects
    <3>3. pod.ver <= version
      BY <1>0, <1>6 DEF GetRetry, Known
    <3> QED
      BY <3>1, <3>2, <3>3
  <2> QED
    BY <1>6, <2>1 DEF GetRetry, annotateVars, Acceptable, Exists
<1>7. CASE AnnotateStep /\ ~GetRetry
  BY <1>7 DEF AnnotateStep, PatchOk, PatchConflict, PatchNotFound,
              GetDiffers, AnnotateBreaks, AnnotateFails, HandlerIdle, Acceptable
<1>8. CASE Restart
  BY <1>8 DEF Restart, HandlerIdle, Acceptable
<1> QED
  BY <1>1, <1>2, <1>3, <1>4, <1>5, <1>6, <1>7, <1>8
     DEF Next, Cluster, Handler, Failure, Quiet, DriverStep, AnnotateStep

-----------------------------------------------------------------------------
(* Active VIFs.                                                             *)

\* A port that was up is up, or gone.
LEMMA UpStays ==
    ASSUME TypeOK, [Next]_vars, NEW p, Up(p)
    PROVE  Up(p)'
<1>0. /\ ports \in [Ports -> {"none", "DOWN", "ACTIVE", "gone"}]
      /\ p \in Ports /\ ports[p] \in {"ACTIVE", "gone"}
  BY DEF TypeOK, NeutronTypes, Up
<1>1. CASE UNCHANGED ports
  BY <1>0, <1>1 DEF Up
<1>2. CASE \E q \in Ports : ports[q] \in {"none", "DOWN"} /\ \E s \in {"DOWN", "ACTIVE"} :
               ports' = [ports EXCEPT ![q] = s]
  BY <1>0, <1>2 DEF Up
<1>3. CASE ports' = [ports EXCEPT ![hand] = "gone"]
  BY <1>0, <1>3 DEF Up
<1>4. CASE PortUp
  <2>1. plugged \in Ports
    BY <1>4 DEF PortUp, TypeOK, ClusterTypes
  <2> QED
    BY <1>2, <1>4, <2>1 DEF PortUp
<1>5. CASE DriverStep
  BY <1>1, <1>2, <1>3, <1>5
     DEF DriverStep, RequestVif, RequestFails, ShowActive, RetryTimeout, ShowFails,
         DeletePort, DeleteFails, neutronVars
<1>6. CASE Cluster \/ Plug \/ UNCHANGED vars \/ Restart \/ Reconnect
  BY <1>1, <1>6 DEF Cluster, CreatePod, SchedulePod, TouchPod, RunPod, DeletePod,
                    Plug, vars, Restart, Reconnect, neutronVars
<1>7. CASE AnnotateStep
  BY <1>1, <1>7 DEF AnnotateStep, PatchOk, PatchConflict, PatchNotFound, GetRetry,
                    GetDiffers, AnnotateBreaks, annotateVars, neutronVars
<1>8. CASE \E k \in 1..Len(inbox) : TakeOne(k)
  BY <1>1, <1>8 DEF TakeOne, Ignore, TakeRequest, TakeActivate, TakeRelease, Take,
                    neutronVars
<1> QED
  BY <1>4, <1>5, <1>6, <1>7, <1>8
     DEF Next, Handler, Failure, Quiet, DriverStep, AnnotateStep

\* How a step changes what the pod is annotated with.
LEMMA AnnotationStep ==
    ASSUME TypeOK, [Next]_vars
    PROVE  \/ pod'.port = pod.port /\ pod'.active = pod.active /\ pod'.uid = pod.uid
           \/ ~Exists /\ ~pod'.active
           \/ pod'.uid = 0 /\ ~pod'.active
           \/ /\ pc = "patch" /\ Exists /\ pod.ver = rv
              /\ pod'.port = hand /\ pod'.active = active /\ pod'.uid = pod.uid
<1>0. pod \in PodObjects
  BY DEF TypeOK, ClusterTypes
<1>1. CASE CreatePod
  BY <1>1 DEF CreatePod, Store, Absent
<1>2. CASE SchedulePod \/ TouchPod \/ RunPod
  BY <1>0, <1>2 DEF SchedulePod, TouchPod, RunPod, Store, PodObjects
<1>3. CASE DeletePod
  BY <1>3 DEF DeletePod, Absent
<1>4. CASE AnnotateStep
  <2>1. CASE UNCHANGED pod
    BY <2>1
  <2>2. CASE pc = "patch" /\ Exists /\ pod.ver = rv /\ Apply
    <3>1. /\ Annotated.port = hand /\ Annotated.active = active
          /\ Annotated.uid = pod.uid
      BY <1>0 DEF Annotated, PodObjects
    <3>2. CASE Annotated = pod
      BY <2>2, <3>1, <3>2 DEF Apply
    <3>3. CASE Store("MODIFIED", Annotated)
      <4>1. pod' = [Annotated EXCEPT !.ver = version + 1]
        BY <3>3 DEF Store
      <4>2. Annotated \in [uid : Nat, ver : Nat, phase : Phases, host : BOOLEAN,
                           port : {hand}, active : {active}]
        BY <1>0 DEF Annotated, PodObjects
      <4> QED
        BY <2>2, <3>1, <4>1, <4>2
    <3> QED
      BY <2>2, <3>2, <3>3 DEF Apply
  <2> QED
    BY <1>4, <2>1, <2>2
       DEF AnnotateStep, PatchOk, PatchConflict, PatchNotFound, GetRetry,
           GetDiffers, AnnotateBreaks
<1>5. CASE DriverStep
  BY <1>5, DriverFrame
<1>6. CASE \E k \in 1..Len(inbox) : TakeOne(k)
  BY <1>6 DEF TakeOne, Ignore, TakeRequest, TakeActivate, TakeRelease, Take
<1>7. CASE Plug \/ PortUp \/ Restart \/ Reconnect \/ UNCHANGED vars
  BY <1>7 DEF Plug, PortUp, Restart, Reconnect, vars
<1> QED
  BY <1>1, <1>2, <1>3, <1>4, <1>5, <1>6, <1>7
     DEF Next, Cluster, Handler, Failure, Quiet, DriverStep, AnnotateStep

LEMMA ActiveUpStep ==
    ASSUME TypeOK, ActiveUp, [Next]_vars
    PROVE  ActiveUp'
<1>1. ASSUME pod'.active
      PROVE  Up(pod.port)'
  <2>1. CASE pod'.port = pod.port /\ pod'.active = pod.active
    <3>1. Up(pod.port)
      BY <1>1, <2>1 DEF ActiveUp
    <3>2. PICK p : p = pod.port
      OBVIOUS
    <3>3. Up(p)'
      BY <3>1, <3>2, UpStays
    <3> QED
      BY <2>1, <3>2, <3>3 DEF Up
  <2>2. CASE pc = "patch" /\ pod'.port = hand /\ pod'.active = active
    <3>1. Up(hand)
      BY <1>1, <2>2 DEF ActiveUp
    <3>2. PICK p : p = hand
      OBVIOUS
    <3>3. Up(p)'
      BY <3>1, <3>2, UpStays
    <3> QED
      BY <2>2, <3>2, <3>3 DEF Up
  <2> QED
    BY <1>1, <2>1, <2>2, AnnotationStep
<1>2. ASSUME pc' \in {"patch", "get"}, active'
      PROVE  Up(hand)'
  <2>1. CASE ShowActive
    <3>1. hand \in Ports
      BY <2>1 DEF ShowActive, TypeOK, HandlerTypes
    <3> QED
      BY <2>1, <3>1 DEF ShowActive, neutronVars, Up
  <2>2. CASE pc \in {"patch", "get"} /\ UNCHANGED <<hand, active>>
    <3>1. Up(hand)
      BY <1>2, <2>2 DEF ActiveUp
    <3>2. PICK p : p = hand
      OBVIOUS
    <3>3. Up(p)'
      BY <3>1, <3>2, UpStays
    <3> QED
      BY <2>2, <3>2, <3>3 DEF Up
  <2>3. CASE Cluster \/ Plug \/ PortUp \/ Reconnect \/ UNCHANGED vars
    BY <1>2, <2>2, <2>3
       DEF Cluster, CreatePod, SchedulePod, TouchPod, RunPod, DeletePod, Plug,
           PortUp, Reconnect, vars, handlerVars
  <2>4. CASE \E k \in 1..Len(inbox) : TakeOne(k)
    BY <1>2, <2>4 DEF TakeOne, Ignore, TakeRequest, TakeActivate, TakeRelease, Take,
                      handlerVars
  <2>5. CASE DriverStep
    BY <1>2, <2>1, <2>5
       DEF DriverStep, RequestVif, RequestFails, RetryTimeout, ShowFails, DeletePort,
           DeleteFails, HandlerIdle
  <2>6. CASE AnnotateStep
    BY <1>2, <2>2, <2>6
       DEF AnnotateStep, PatchOk, PatchConflict, PatchNotFound, GetRetry, GetDiffers,
           AnnotateBreaks, AnnotateFails, HandlerIdle
  <2>7. CASE Restart
    BY <1>2, <2>7 DEF Restart, HandlerIdle
  <2> QED
    BY <2>3, <2>4, <2>5, <2>6, <2>7
       DEF Next, Handler, Failure, Quiet, DriverStep, AnnotateStep
<1> QED
  BY <1>1, <1>2 DEF ActiveUp

-----------------------------------------------------------------------------
(* The theorems.                                                            *)

LEMMA InitInv ==
    ASSUME Init
    PROVE  IndInv
<1>1. Absent \in PodObjects /\ Absent.uid = 0 /\ Absent.ver = 0 /\ ~Absent.active
  BY DEF Absent, PodObjects, Phases
<1>2. inbox \in Seq(Events) /\ Len(inbox) = 0
  BY DEF Init
<1>3. TypeOK
  BY <1>1, <1>2 DEF Init, TypeOK, ClusterTypes, HandlerTypes, NeutronTypes, BoundTypes
<1> QED
  BY <1>1, <1>2, <1>3
     DEF Init, IndInv, Known, Genuine, Exists, Branch, Acceptable, ActiveUp

\* The invariant holds in every reachable state.
THEOREM Inductive == Spec => []IndInv
<1>1. Init => IndInv
  BY InitInv
<1>2. IndInv /\ [Next]_vars => IndInv'
  BY TypeStep, KnownStep, BranchStep, AcceptableStep, ActiveUpStep DEF IndInv
<1> QED
  BY <1>1, <1>2, PTL DEF Spec

\* The types of the model, and a handler past its first decision always works
\* with a port (VIFHandler._get_vif and request_vif).
THEOREM TypeCorrect == Spec => []TypeOK
<1>1. IndInv => TypeOK
  BY DEF IndInv
<1> QED
  BY <1>1, Inductive, PTL

\* A pod is shown as active only when Neutron had its port up: activate_vif
\* looks before _set_vif writes, and nothing that is up goes down again but by
\* being deleted.
THEOREM ActiveIsUp == Spec => []ActiveMeansUp
<1>1. IndInv => ActiveMeansUp
  BY DEF IndInv, ActiveUp, Up, ActiveMeansUp
<1> QED
  BY <1>1, Inductive, PTL

\* The VIF annotation of a living pod never moves to another port and never
\* turns inactive: the resourceVersion of the first PATCH and the comparison
\* before every other one (K8sClient.annotate) stop stale events.
THEOREM AnnotationStable == Spec => VifStable
<1>1. ASSUME IndInv, [Next]_vars, Exists, pod'.uid = pod.uid, pod.port # NoPort
      PROVE  pod'.port = pod.port /\ (pod.active => pod'.active)
  <2>1. pod.uid # 0
    BY <1>1 DEF Exists
  <2>2. CASE pc = "patch" /\ pod.ver = rv /\ pod'.port = hand /\ pod'.active = active
    BY <1>1, <2>2 DEF IndInv, Acceptable
  <2> QED
    BY <1>1, <2>1, <2>2, AnnotationStep DEF IndInv
<1>2. IndInv /\ [Next]_vars =>
        [Exists /\ pod'.uid = pod.uid /\ pod.port # NoPort
           => pod'.port = pod.port /\ (pod.active => pod'.active)]_vars
  BY <1>1
<1> QED
  BY <1>2, Inductive, PTL DEF Spec, VifStable

-----------------------------------------------------------------------------
(***************************************************************************)
(* The ports of pods: a pod's own port is not deleted while the pod lives, *)
(* and no port is forgotten as long as the name is not used again and      *)
(* nothing fails.                                                          *)
(*                                                                         *)
(* Ports are told apart by the pod they were created for.  A pod can only  *)
(* be annotated with a port that was created for it or for an earlier pod  *)
(* (Made), and a DELETED event is of an earlier pod than the one there is  *)
(* (Lives), so what it releases is not the living pod's own port.  A new   *)
(* VIF is only released when the pod has another one for good (Spare).     *)
(***************************************************************************)

\* A port on a pod object was created, for this pod or one before it.
Made(o) == o.port # NoPort => ports[o.port] # "none" /\ portFor[o.port] <= o.uid

Lives == /\ Exists => pod.uid = uids
         /\ obj.uid <= uids
         /\ \A i \in 1..Len(inbox) : inbox[i].object.uid <= uids
         /\ \A i \in 1..Len(inbox) :
              inbox[i].type = "DELETED" /\ Exists => inbox[i].object.uid < uids
         /\ \A p \in Ports : portFor[p] <= uids

Origins == Made(pod) /\ Made(obj) /\ \A i \in 1..Len(inbox) : Made(inbox[i].object)

\* A VIF to be annotated has a port that is not the pod's yet ...
InHand == pc \in {"patch", "get"} /\ ~active => Alive(hand) /\ pod.port # hand

\* ... and a port of the living pod that is deleted was spare.
Spare == Exists /\ faults = 0 =>
           /\ pc = "release" /\ portFor[hand] = uids => pod.port \notin {hand, NoPort}
           /\ \A p \in Ports : ports[p] = "gone" /\ portFor[p] = uids
                                 => pod.port \notin {p, NoPort}

PortInv == IndInv /\ Lives /\ Origins /\ InHand /\ Spare

-----------------------------------------------------------------------------
(* What a step does to the pod and to its events.                           *)

\* The pod as it is now is announced at the end of the inbox.
Announces(e) == /\ inbox' = Append(inbox, e)
                /\ e.type # "DELETED" /\ e.object = pod' /\ Exists'

\* The annotation, when it is the handler that changes the pod.
Annotating == pc = "patch" /\ rv = pod.ver /\ pod'.port = hand /\ pc' \notin {"patch", "get"}

PodChanges ==
    \/ UNCHANGED <<pod, uids>>
    \/ DeletePod
    \/ /\ CreatePod /\ \E e : Announces(e)
       /\ ~Exists /\ uids' = uids + 1 /\ pod'.uid = uids' /\ pod'.port = NoPort
    \/ /\ Exists /\ UNCHANGED uids /\ \E e : Announces(e)
       /\ pod'.uid = pod.uid /\ pod'.host = pod.host
       /\ pod'.port = pod.port \/ Annotating

\* The obituary of a pod, the last that is heard of it.
Obituary == Event("DELETED", [pod EXCEPT !.ver = version + 1])

InboxChanges ==
    \/ UNCHANGED inbox
    \/ inbox' = Append(inbox, Obituary) /\ DeletePod
    \/ \E e : Announces(e)
    \/ \E k \in 1..Len(inbox) : inbox' = SubSeq(inbox, k + 1, Len(inbox)) /\ TakeOne(k)
    \/ UNCHANGED pod /\ inbox' = Announced /\ Restart
    \/ /\ UNCHANGED pod /\ Reconnect
       /\ \E k \in 0..Len(inbox) : inbox' = SubSeq(inbox, 1, k) \o Announced

\* A change of the pod that the API stores.
LEMMA Stored ==
    ASSUME TypeOK, NEW t, t # "DELETED", NEW o \in PodObjects, o.uid # 0, Store(t, o)
    PROVE  /\ pod'.uid = o.uid /\ pod'.host = o.host /\ pod'.port = o.port
           /\ \E e : Announces(e)
<1> DEFINE new == [o EXCEPT !.ver = version + 1]
<1>1. new.uid = o.uid /\ new.host = o.host /\ new.port = o.port
  BY DEF PodObjects
<1>2. pod' = new /\ inbox' = Append(inbox, Event(t, new))
  BY DEF Store
<1>3. Event(t, new).type = t /\ Event(t, new).object = new
  BY DEF Event
<1>4. Exists'
  BY <1>1, <1>2 DEF Exists
<1>5. Announces(Event(t, new))
  BY <1>2, <1>3, <1>4 DEF Announces
<1> QED
  BY <1>1, <1>2, <1>5

LEMMA PodStep ==
    ASSUME TypeOK, [Next]_vars
    PROVE  PodChanges /\ InboxChanges
<1>0. pod \in PodObjects /\ uids \in Nat /\ hand \in Ports \cup {NoPort} /\ active \in BOOLEAN
  BY DEF TypeOK, ClusterTypes, HandlerTypes
<1>1. CASE CreatePod
  <2>1. PICK h \in BOOLEAN : Store("ADDED", [Absent EXCEPT !.uid = uids + 1, !.host = h])
    BY <1>1 DEF CreatePod
  <2>2. PICK o : o = [Absent EXCEPT !.uid = uids + 1, !.host = h]
    OBVIOUS
  <2>3. o \in PodObjects /\ o.uid = uids + 1 /\ o.uid # 0 /\ o.port = NoPort
    <3>1. uids + 1 \in Nat /\ uids + 1 # 0
      BY <1>0
    <3>2. Absent \in PodObjects /\ Absent.port = NoPort
      BY DEF Absent, PodObjects, Phases
    <3>3. o \in PodObjects
      BY <2>2, <3>1, <3>2 DEF PodObjects
    <3>4. o.uid = uids + 1 /\ o.port = NoPort
      BY <2>2, <3>2 DEF Absent
    <3> QED
      BY <3>1, <3>3, <3>4
  <2>4. pod'.uid = uids + 1 /\ pod'.port = NoPort /\ \E e : Announces(e)
    BY <2>1, <2>2, <2>3, Stored
  <2> QED
    BY <1>1, <2>4 DEF PodChanges, InboxChanges, CreatePod
<1>2. CASE SchedulePod \/ RunPod \/ TouchPod
  <2>1. Exists /\ UNCHANGED uids
    BY <1>2 DEF SchedulePod, RunPod, TouchPod
  <2>2. PICK o : /\ o \in PodObjects /\ o.uid = pod.uid /\ o.host = pod.host /\ o.port = pod.port
                 /\ Store("MODIFIED", o)
    <3>1. ASSUME NEW s \in Phases
          PROVE  LET o == [pod EXCEPT !.phase = s] IN
                 o \in PodObjects /\ o.uid = pod.uid /\ o.host = pod.host /\ o.port = pod.port
      BY <1>0 DEF PodObjects
    <3>2. "pending" \in Phases /\ "running" \in Phases
      BY DEF Phases
    <3>3. CASE SchedulePod
      BY <3>1, <3>2, <3>3 DEF SchedulePod
    <3>4. CASE RunPod
      BY <3>1, <3>2, <3>4 DEF RunPod
    <3>5. CASE TouchPod
      BY <1>0, <3>5 DEF TouchPod
    <3> QED
      BY <1>2, <3>3, <3>4, <3>5
  <2>3. /\ pod'.uid = pod.uid /\ pod'.host = pod.host /\ pod'.port = pod.port
        /\ \E e : Announces(e)
    BY <2>1, <2>2, Stored DEF Exists
  <2> QED
    BY <2>1, <2>3 DEF PodChanges, InboxChanges
<1>3. CASE DeletePod
  BY <1>3 DEF PodChanges, InboxChanges, Obituary, DeletePod
<1>4. CASE AnnotateStep
  <2>1. UNCHANGED uids
    BY <1>4 DEF AnnotateStep, PatchOk, PatchConflict, PatchNotFound,
                GetRetry, GetDiffers, AnnotateBreaks, annotateVars
  <2>2. \/ UNCHANGED <<pod, inbox>>
        \/ pc = "patch" /\ Exists /\ pod.ver = rv /\ Apply /\ pc' \notin {"patch", "get"}
    BY <1>4 DEF AnnotateStep, PatchOk, PatchConflict, PatchNotFound, GetRetry,
                GetDiffers, AnnotateBreaks, AnnotateFails, HandlerIdle
  <2>3. CASE pc = "patch" /\ Exists /\ pod.ver = rv /\ Store("MODIFIED", Annotated)
             /\ pc' \notin {"patch", "get"}
    <3>1. /\ Annotated \in PodObjects /\ Annotated.uid = pod.uid
          /\ Annotated.host = pod.host /\ Annotated.port = hand
      BY <1>0 DEF Annotated, PodObjects
    <3>2. /\ pod'.uid = pod.uid /\ pod'.host = pod.host /\ pod'.port = hand
          /\ \E e : Announces(e)
      BY <2>3, <3>1, Stored DEF Exists
    <3> QED
      BY <2>1, <2>3, <3>2 DEF PodChanges, InboxChanges, Annotating
  <2> QED
    BY <2>1, <2>2, <2>3 DEF Apply, PodChanges, InboxChanges
<1>5. CASE DriverStep
  BY <1>5, DriverFrame DEF PodChanges, InboxChanges
<1>6. CASE \E k \in 1..Len(inbox) : TakeOne(k)
  BY <1>6 DEF PodChanges, InboxChanges, TakeOne, Ignore, TakeRequest, TakeActivate, TakeRelease, Take
<1>7. CASE Plug \/ PortUp \/ Restart \/ Reconnect \/ UNCHANGED vars
  BY <1>7 DEF PodChanges, InboxChanges, Plug, PortUp, Restart, Reconnect, vars
<1> QED
  BY <1>1, <1>2, <1>3, <1>4, <1>5, <1>6, <1>7
     DEF Next, Cluster, Handler, Failure, Quiet, DriverStep, AnnotateStep

\* An event that is there after a step was there before, tells of the pod as it
\* is, or of its end.
EventOrigin(e) ==
    \/ \E j \in 1..Len(inbox) : e = inbox[j]
    \/ e.type # "DELETED" /\ Exists' /\ e.object = pod'
    \/ DeletePod /\ e = Obituary

LEMMA Appended ==
    ASSUME NEW q \in Seq(Events), NEW e, NEW s, s = Append(q, e), NEW i \in 1..Len(s)
    PROVE  (i \in 1..Len(q) /\ s[i] = q[i]) \/ (i = Len(q) + 1 /\ s[i] = e)
OBVIOUS

LEMMA EventStep ==
    ASSUME TypeOK, InboxChanges, NEW i \in 1..Len(inbox')
    PROVE  EventOrigin(inbox'[i])
<1>0. inbox \in Seq(Events) /\ pod \in PodObjects
  BY DEF TypeOK, ClusterTypes
<1>1. PICK s : s = inbox'
  OBVIOUS
<1>2. CASE UNCHANGED inbox
  BY <1>2 DEF EventOrigin
<1>3. CASE inbox' = Append(inbox, Obituary) /\ DeletePod
  BY <1>0, <1>1, <1>3, Appended DEF EventOrigin
<1>4. CASE \E e : Announces(e)
  BY <1>0, <1>1, <1>4, Appended DEF EventOrigin, Announces
<1>5. CASE \E k \in 1..Len(inbox) : inbox' = SubSeq(inbox, k + 1, Len(inbox))
  BY <1>0, <1>5, TailOfInbox DEF EventOrigin
<1>6. CASE UNCHANGED pod /\ (inbox' = Announced
              \/ \E k \in 0..Len(inbox) : inbox' = SubSeq(inbox, 1, k) \o Announced)
  <2>1. /\ Announced \in Seq(Events)
        /\ \A j \in 1..Len(Announced) : /\ Announced[j].object = pod
                                        /\ Announced[j].type = "ADDED" /\ Exists
    <3>1. CASE Exists
      BY <1>0, <3>1, AnnouncedEvents DEF Announced, Event
    <3>2. CASE ~Exists
      BY <3>2 DEF Announced
    <3> QED
      BY <3>1, <3>2
  <2>2. \/ \E j \in 1..Len(inbox) : s[i] = inbox[j]
        \/ \E j \in 1..Len(Announced) : s[i] = Announced[j]
    <3>1. CASE inbox' = Announced
      BY <1>1, <3>1
    <3>2. ASSUME NEW k \in 0..Len(inbox), inbox' = SubSeq(inbox, 1, k) \o Announced
          PROVE  \/ \E j \in 1..Len(inbox) : s[i] = inbox[j]
                 \/ \E j \in 1..Len(Announced) : s[i] = Announced[j]
      <4>1. s = SubSeq(inbox, 1, k) \o Announced /\ i \in 1..Len(s)
        BY <1>1, <3>2
      <4>2. inbox \in Seq(Events) /\ Announced \in Seq(Events)
        BY <1>0, <2>1
      <4>3. \A n \in 1..Len(s) : \/ \E j \in 1..Len(inbox) : s[n] = inbox[j]
                                 \/ \E j \in 1..Len(Announced) : s[n] = Announced[j]
        <5>1. ASSUME NEW r \in Seq(Events), r = Announced
              PROVE  \A n \in 1..Len(s) : \/ \E j \in 1..Len(inbox) : s[n] = inbox[j]
                                         \/ \E j \in 1..Len(r) : s[n] = r[j]
          <6>1. s = SubSeq(inbox, 1, k) \o r
            BY <4>1, <5>1
          <6> QED
            BY <4>2, <6>1, HeadOfInbox
        <5> QED
          BY <4>2, <5>1
      <4> QED
        BY <4>1, <4>3
    <3> QED
      BY <1>6, <3>1, <3>2
  <2> QED
    BY <1>1, <1>6, <2>1, <2>2 DEF EventOrigin, Exists
<1> QED
  BY <1>2, <1>3, <1>4, <1>5, <1>6 DEF InboxChanges

-----------------------------------------------------------------------------
(* What a step does to a port and to the handler.                           *)

PortChanges(p) ==
    \/ ports'[p] = ports[p] /\ portFor'[p] = portFor[p]
    \/ /\ pc = "request" /\ ports[p] = "none"
       /\ ports'[p] = "DOWN" /\ portFor'[p] = obj.uid
       /\ RequestVif(p) \/ (HandlerIdle /\ faults' = faults + 1)
    \/ ports[p] = "DOWN" /\ ports'[p] = "ACTIVE" /\ portFor'[p] = portFor[p] /\ PortUp
    \/ hand = p /\ ports'[p] = "gone" /\ portFor'[p] = portFor[p] /\ DeletePort

LEMMA PortStep ==
    ASSUME TypeOK, [Next]_vars, NEW p \in Ports
    PROVE  PortChanges(p)
<1>0. /\ ports \in [Ports -> {"none", "DOWN", "ACTIVE", "gone"}]
      /\ portFor \in [Ports -> Nat]
  BY DEF TypeOK, NeutronTypes
<1>1. CASE \E q \in Ports : RequestVif(q)
  BY <1>0, <1>1 DEF RequestVif, PortChanges
<1>2. CASE RequestFails
  BY <1>0, <1>2 DEF RequestFails, neutronVars, PortChanges
<1>3. CASE PortUp
  BY <1>0, <1>3 DEF PortUp, PortChanges, TypeOK, ClusterTypes
<1>4. CASE DeletePort
  BY <1>0, <1>4 DEF DeletePort, PortChanges, TypeOK, HandlerTypes
<1>5. CASE UNCHANGED neutronVars
  BY <1>5 DEF neutronVars, PortChanges
<1>6. CASE ShowActive \/ RetryTimeout \/ ShowFails \/ DeleteFails
  BY <1>5, <1>6 DEF ShowActive, RetryTimeout, ShowFails, DeleteFails
<1>7. CASE Cluster \/ Plug \/ UNCHANGED vars \/ Restart \/ Reconnect
  BY <1>5, <1>7 DEF Cluster, CreatePod, SchedulePod, TouchPod, RunPod, DeletePod,
                    Plug, vars, Restart, Reconnect
<1>8. CASE AnnotateStep
  BY <1>5, <1>8 DEF AnnotateStep, PatchOk, PatchConflict, PatchNotFound, GetRetry,
                    GetDiffers, AnnotateBreaks, annotateVars
<1>9. CASE \E k \in 1..Len(inbox) : TakeOne(k)
  BY <1>5, <1>9 DEF TakeOne, Ignore, TakeRequest, TakeActivate, TakeRelease, Take
<1> QED
  BY <1>1, <1>2, <1>3, <1>4, <1>6, <1>7, <1>8, <1>9
     DEF Next, Handler, Failure, Quiet, AnnotateStep

\* What the handler takes from an event.
Takes(k) == /\ TakeOne(k) /\ UNCHANGED <<pod, uids, neutronVars, boundVars>>
            /\ pc = "idle" /\ pc' \in {"idle", "request", "show", "release"}
            /\ obj' \in {obj, inbox[k].object}
            /\ pc' = "release" => inbox[k].type = "DELETED" /\ hand' = inbox[k].object.port
            /\ pc' # "idle" => obj' = inbox[k].object /\ ~obj'.host

\* A new VIF that is not annotated: the pod is gone, has another one, or a
\* request has failed.
Releases == /\ pc \in {"patch", "get"} /\ ~active /\ pc' = "release" /\ UNCHANGED <<obj, hand, active>>
            /\ \/ ~Exists /\ UNCHANGED <<pod, inbox>>
               \/ pod.port # NoPort /\ Annotated # pod /\ UNCHANGED <<pod, inbox, faults>>
               \/ faults' = faults + 1

HandlerChanges ==
    \/ UNCHANGED handlerVars /\ (UNCHANGED neutronVars \/ PortUp)
    \/ HandlerIdle
    \/ \E k \in 1..Len(inbox) : Takes(k)
    \/ \E p \in Ports : RequestVif(p)
    \/ pc = "show" /\ pc' = "patch" /\ active' /\ ShowActive
    \/ /\ pc \in {"patch", "get"} /\ pc' \in {"patch", "get"}
       /\ UNCHANGED <<obj, hand, active, pod, inbox, neutronVars>>
    \/ Releases

LEMMA HandlerStep ==
    ASSUME TypeOK, [Next]_vars
    PROVE  HandlerChanges
<1>1. CASE Cluster \/ Plug \/ PortUp \/ Reconnect \/ UNCHANGED vars
  BY <1>1 DEF Cluster, CreatePod, SchedulePod, TouchPod, RunPod, DeletePod, Plug,
              PortUp, Reconnect, vars, HandlerChanges
<1>2. ASSUME NEW k \in 1..Len(inbox), TakeOne(k)
      PROVE  Takes(k)
  BY <1>2 DEF TakeOne, Ignore, TakeRequest, TakeActivate, TakeRelease, Take, Takes,
              Present, Deleted, handlerVars
<1>3. CASE DriverStep
  BY <1>3 DEF DriverStep, RequestFails, ShowActive, RetryTimeout, ShowFails,
              DeletePort, DeleteFails, HandlerChanges
<1>4. CASE AnnotateStep
  <2>1. CASE PatchConflict \/ GetRetry
    BY <2>1 DEF PatchConflict, GetRetry, annotateVars, HandlerChanges
  <2>2. CASE AnnotateFails
    BY <1>4, <2>2 DEF AnnotateStep, PatchOk, PatchConflict, PatchNotFound, GetRetry, GetDiffers,
                AnnotateBreaks, AnnotateFails, HandlerIdle, HandlerChanges, Releases
  <2>3. CASE HandlerIdle
    BY <2>3 DEF HandlerChanges
  <2> QED
    BY <1>4, <2>1, <2>2, <2>3
       DEF AnnotateStep, PatchOk, PatchNotFound, GetDiffers, AnnotateBreaks
<1>5. CASE Restart
  BY <1>5 DEF Restart, HandlerChanges
<1> QED
  BY <1>1, <1>2, <1>3, <1>4, <1>5
     DEF Next, Handler, Failure, Quiet, DriverStep, AnnotateStep, HandlerChanges

\* Faults are counted, never forgotten.
LEMMA FaultStep ==
    ASSUME TypeOK, [Next]_vars
    PROVE  faults \in Nat /\ (faults' = faults \/ faults' = faults + 1)
<1>1. faults \in Nat
  BY DEF TypeOK, BoundTypes
<1>2. CASE Cluster \/ Plug \/ PortUp \/ Restart \/ Reconnect \/ UNCHANGED vars
  BY <1>1, <1>2 DEF Cluster, CreatePod, SchedulePod, TouchPod, RunPod, DeletePod, Plug,
              PortUp, Restart, Reconnect, vars, boundVars
<1>3. CASE DriverStep
  BY <1>1, <1>3 DEF DriverStep, RequestVif, RequestFails, ShowActive, RetryTimeout, ShowFails,
              DeletePort, DeleteFails
<1>4. CASE AnnotateStep
  BY <1>1, <1>4 DEF AnnotateStep, PatchOk, PatchConflict, PatchNotFound, GetRetry, GetDiffers,
              AnnotateBreaks
<1>5. CASE \E k \in 1..Len(inbox) : TakeOne(k)
  BY <1>1, <1>5 DEF TakeOne, Ignore, TakeRequest, TakeActivate, TakeRelease, Take, boundVars
<1> QED
  BY <1>1, <1>2, <1>3, <1>4, <1>5
     DEF Next, Handler, Failure, Quiet, DriverStep, AnnotateStep

-----------------------------------------------------------------------------
(* Ports stay with the pod they were created for.                           *)

\* The types of what the invariant compares.
LEMMA Numbers ==
    ASSUME TypeOK
    PROVE  /\ uids \in Nat /\ pod.uid \in Nat /\ obj.uid \in Nat
           /\ pod.port \in Ports \cup {NoPort} /\ obj.port \in Ports \cup {NoPort}
           /\ \A i \in 1..Len(inbox) : /\ inbox[i] \in Events
                                       /\ inbox[i].object.uid \in Nat
                                       /\ inbox[i].object.port \in Ports \cup {NoPort}
           /\ \A p \in Ports : portFor[p] \in Nat /\ ports[p] \in {"none", "DOWN", "ACTIVE", "gone"}
<1>1. /\ uids \in Nat /\ pod \in PodObjects /\ obj \in PodObjects /\ inbox \in Seq(Events)
      /\ ports \in [Ports -> {"none", "DOWN", "ACTIVE", "gone"}] /\ portFor \in [Ports -> Nat]
  BY DEF TypeOK, ClusterTypes, HandlerTypes, NeutronTypes
<1>2. \A o \in PodObjects : o.uid \in Nat /\ o.port \in Ports \cup {NoPort}
  BY DEF PodObjects
<1>3. \A i \in 1..Len(inbox) : inbox[i] \in Events /\ inbox[i].object \in PodObjects
  <2>1. \A e \in Events : e.object \in PodObjects
    BY DEF Events
  <2> QED
    BY <1>1, <2>1
<1>4. \A p \in Ports : portFor[p] \in Nat /\ ports[p] \in {"none", "DOWN", "ACTIVE", "gone"}
  BY <1>1
<1> QED
  BY <1>1, <1>2, <1>3, <1>4

\* What the handler has at hand is its object, nothing, or an event's object.
LEMMA ObjectStep ==
    ASSUME TypeOK, [Next]_vars
    PROVE  obj' \in {obj, Absent} \/ \E k \in 1..Len(inbox) : obj' = inbox[k].object
<1>1. CASE \E p \in Ports : RequestVif(p)
  BY <1>1 DEF RequestVif
<1>2. CASE ShowActive
  BY <1>2 DEF ShowActive
<1> QED
  BY <1>1, <1>2, HandlerStep DEF HandlerChanges, handlerVars, HandlerIdle, Takes, Releases

LEMMA LivesStep ==
    ASSUME TypeOK, Lives, [Next]_vars
    PROVE  Lives'
<1>0. PodChanges /\ InboxChanges /\ TypeOK'
  BY PodStep, TypeStep
<1>1. uids \in Nat /\ uids' \in Nat /\ uids <= uids'
  BY <1>0, Numbers DEF PodChanges, DeletePod
<1>2. (Exists => pod.uid = uids)'
  BY <1>0 DEF PodChanges, DeletePod, Absent, Exists, Lives
<1>3. (obj.uid <= uids)'
  <2>1. Absent.uid = 0
    BY DEF Absent
  <2> QED
    BY <1>1, <2>1, Numbers, ObjectStep DEF Lives
<1>4. ASSUME NEW i \in 1..Len(inbox')
      PROVE  (/\ inbox[i].object.uid <= uids
              /\ inbox[i].type = "DELETED" /\ Exists => inbox[i].object.uid < uids)'
  <2>1. CASE \E j \in 1..Len(inbox) : inbox'[i] = inbox[j]
    <3>1. PICK j \in 1..Len(inbox) : inbox'[i] = inbox[j]
      BY <2>1
    <3>2. inbox[j].object.uid \in Nat /\ inbox[j].object.uid <= uids
      BY Numbers DEF Lives
    <3>3. ASSUME Exists', inbox[j].type = "DELETED"
          PROVE  inbox[j].object.uid < uids'
      <4>1. Exists \/ uids' = uids + 1
        BY <1>0, <3>3 DEF PodChanges, DeletePod, Absent, Exists
      <4>2. CASE Exists
        BY <1>1, <3>2, <3>3, <4>2 DEF Lives
      <4>3. CASE uids' = uids + 1
        BY <1>1, <3>2, <4>3
      <4> QED
        BY <4>1, <4>2, <4>3
    <3> QED
      BY <1>1, <3>1, <3>2, <3>3
  <2>2. CASE inbox'[i].type # "DELETED" /\ Exists' /\ inbox'[i].object = pod'
    BY <1>1, <1>2, <2>2
  <2>3. CASE DeletePod /\ inbox'[i] = Obituary
    <3>1. Obituary.object.uid = pod.uid
      BY DEF Obituary, Event, TypeOK, ClusterTypes, PodObjects
    <3>2. ~Exists' /\ pod.uid = uids /\ uids' = uids
      BY <2>3 DEF DeletePod, Absent, Exists, Lives
    <3> QED
      BY <1>1, <2>3, <3>1, <3>2
  <2> QED
    BY <1>0, <2>1, <2>2, <2>3, EventStep DEF EventOrigin
<1>5. ASSUME NEW p \in Ports
      PROVE  portFor'[p] <= uids'
  BY <1>1, PortStep, Numbers DEF PortChanges, Lives
<1> QED
  BY <1>2, <1>3, <1>4, <1>5 DEF Lives

\* A port that was created for somebody stays so.
LEMMA MadeStays ==
    ASSUME TypeOK, [Next]_vars, NEW o, Made(o), o.port \in Ports \cup {NoPort}
    PROVE  o.port # NoPort => ports'[o.port] # "none" /\ portFor'[o.port] <= o.uid
BY PortStep DEF PortChanges, Made

LEMMA OriginsStep ==
    ASSUME IndInv, Lives, Origins, InHand, [Next]_vars
    PROVE  Origins'
<1>0. TypeOK /\ PodChanges /\ InboxChanges /\ Absent.port = NoPort
  BY PodStep DEF IndInv, Absent
<1>1. Made(pod)'
  <2>1. CASE pod'.port = NoPort
    BY <2>1 DEF Made
  <2>2. CASE pod'.port = pod.port /\ pod'.uid = pod.uid
    <3>1. Made(pod)
      BY DEF Origins
    <3> QED
      BY <1>0, <2>2, <3>1, MadeStays, Numbers DEF Made
  <2>3. CASE Exists /\ Annotating /\ pod'.uid = pod.uid
    <3>1. hand \in Ports /\ pc = "patch" /\ pod'.port = hand
      BY <1>0, <2>3 DEF Annotating, TypeOK, HandlerTypes
    <3>2. ports[hand] # "none" /\ portFor[hand] <= pod.uid
      BY <2>3, <3>1 DEF InHand, Alive, IndInv, ActiveUp, Up, Lives
    <3> QED
      BY <1>0, <2>3, <3>1, <3>2, PortStep DEF PortChanges, Made
  <2> QED
    BY <1>0, <2>1, <2>2, <2>3 DEF PodChanges, DeletePod
<1>2. Made(obj)'
  <2>1. CASE obj' = Absent
    BY <1>0, <2>1 DEF Made
  <2>2. CASE obj' = obj
    <3>1. Made(obj)
      BY DEF Origins
    <3> QED
      BY <1>0, <2>2, <3>1, MadeStays, Numbers DEF Made
  <2>3. ASSUME NEW k \in 1..Len(inbox), obj' = inbox[k].object
        PROVE  Made(obj)'
    <3>1. Made(inbox[k].object)
      BY DEF Origins
    <3> QED
      BY <1>0, <2>3, <3>1, MadeStays, Numbers DEF Made
  <2> QED
    BY <1>0, <2>1, <2>2, <2>3, ObjectStep
<1>3. ASSUME NEW i \in 1..Len(inbox')
      PROVE  Made(inbox[i].object)'
  <2>1. CASE \E j \in 1..Len(inbox) : inbox'[i] = inbox[j]
    <3>1. PICK j \in 1..Len(inbox) : inbox'[i] = inbox[j]
      BY <2>1
    <3>2. Made(inbox[j].object)
      BY DEF Origins
    <3> QED
      BY <1>0, <3>1, <3>2, MadeStays, Numbers DEF Made
  <2>2. CASE inbox'[i].object = pod'
    BY <1>1, <2>2 DEF Made
  <2>3. CASE DeletePod /\ inbox'[i] = Obituary
    <3>1. Obituary.object.uid = pod.uid /\ Obituary.object.port = pod.port
      BY <1>0 DEF Obituary, Event, TypeOK, ClusterTypes, PodObjects
    <3>2. Made(pod)
      BY DEF Origins
    <3> QED
      BY <1>0, <2>3, <3>1, <3>2, MadeStays, Numbers DEF Made
  <2> QED
    BY <1>0, <2>1, <2>2, <2>3, EventStep DEF EventOrigin
<1> QED
  BY <1>1, <1>2, <1>3 DEF Origins

-----------------------------------------------------------------------------
(* New VIFs and their release.                                              *)

LEMMA InHandStep ==
    ASSUME IndInv, Origins, InHand, [Next]_vars
    PROVE  InHand'
<1>0. TypeOK /\ PodChanges /\ InboxChanges /\ Absent.port = NoPort
  BY PodStep DEF IndInv, Absent
<1> SUFFICES ASSUME pc' \in {"patch", "get"}, ~active'
             PROVE  Alive(hand)' /\ pod'.port # hand'
  BY DEF InHand
<1>1. CASE UNCHANGED handlerVars /\ (UNCHANGED neutronVars \/ PortUp)
  <2>1. hand' = hand /\ hand \in Ports /\ Alive(hand) /\ pod.port # hand
    BY <1>0, <1>1 DEF handlerVars, InHand, TypeOK, HandlerTypes
  <2>2. Alive(hand)'
    BY <1>0, <1>1, <2>1, PortStep DEF PortChanges, Alive, neutronVars, PortUp, DeletePort, handlerVars
  <2>3. pod'.port \in {pod.port, NoPort}
    BY <1>0, <1>1 DEF PodChanges, DeletePod, Annotating, handlerVars
  <2> QED
    BY <2>1, <2>2, <2>3, NoPortAssumption
<1>2. ASSUME NEW p \in Ports, RequestVif(p)
      PROVE  Alive(hand)' /\ pod'.port # hand'
  <2>1. hand' = p /\ pod' = pod /\ ports[p] = "none" /\ ports'[p] = "DOWN"
    BY <1>0, <1>2 DEF RequestVif, clusterVars, TypeOK, NeutronTypes
  <2>2. pod.port # p
    <3>1. Made(pod)
      BY DEF Origins
    <3> QED
      BY <2>1, <3>1, NoPortAssumption DEF Made
  <2> QED
    BY <2>1, <2>2 DEF Alive
<1>3. CASE /\ pc \in {"patch", "get"} /\ pc' \in {"patch", "get"}
           /\ UNCHANGED <<hand, active, pod, neutronVars>>
  BY <1>3 DEF InHand, Alive, neutronVars
<1> QED
  BY <1>0, <1>1, <1>2, <1>3, HandlerStep DEF HandlerChanges, HandlerIdle, Takes, Releases

LEMMA SpareStep ==
    ASSUME IndInv, Lives, Origins, InHand, Spare, [Next]_vars
    PROVE  Spare'
<1>0. TypeOK /\ PodChanges /\ Absent.port = NoPort
  BY PodStep DEF IndInv, Absent
<1> SUFFICES ASSUME Exists', faults' = 0
             PROVE  /\ pc' = "release" /\ portFor'[hand'] = uids'
                         => pod'.port \notin {hand', NoPort}
                    /\ \A p \in Ports : ports'[p] = "gone" /\ portFor'[p] = uids'
                                          => pod'.port \notin {p, NoPort}
  BY DEF Spare
<1>1. faults = 0 /\ faults' = faults
  BY <1>0, FaultStep
\* The pod is there, as it was for the port, or is new.
<1>2. ASSUME NEW p \in Ports, portFor[p] = uids',
             Exists /\ portFor[p] = uids => pod.port \notin {p, NoPort}
      PROVE  pod'.port \notin {p, NoPort}
  <2>1. uids' # uids + 1
    BY <1>0, <1>2, Numbers DEF Lives
  <2>2. Exists /\ uids' = uids
    BY <1>0, <2>1 DEF PodChanges, DeletePod, Absent, Exists
  <2>3. pod.port \notin {p, NoPort}
    BY <1>2, <2>2
  <2>4. CASE Annotating
    BY <2>2, <2>3, <2>4 DEF Annotating, IndInv, Acceptable
  <2>5. CASE pod'.port = pod.port
    BY <2>3, <2>5
  <2> QED
    BY <1>0, <2>1, <2>2, <2>4, <2>5 DEF PodChanges, DeletePod, Absent, Exists
<1>3. ASSUME pc' = "release", portFor'[hand'] = uids'
      PROVE  pod'.port \notin {hand', NoPort}
  <2>1. CASE UNCHANGED handlerVars /\ (UNCHANGED neutronVars \/ PortUp)
    <3>1. hand \in Ports /\ portFor[hand] = uids' /\ pc = "release" /\ hand' = hand
      BY <1>0, <1>3, <2>1 DEF handlerVars, neutronVars, PortUp, TypeOK, HandlerTypes
    <3>2. Exists /\ portFor[hand] = uids => pod.port \notin {hand, NoPort}
      BY <1>1, <3>1 DEF Spare
    <3> QED
      BY <1>2, <3>1, <3>2
  <2>2. ASSUME NEW k \in 1..Len(inbox), Takes(k)
        PROVE  FALSE
    <3>1. /\ inbox[k].type = "DELETED" /\ hand' = inbox[k].object.port
          /\ Exists /\ portFor' = portFor /\ uids' = uids
      BY <1>3, <2>2 DEF Takes, Exists, neutronVars
    <3>2. hand' \in Ports
      BY <1>0, <1>3, TypeStep DEF TypeOK, HandlerTypes
    <3>3. portFor[hand'] <= inbox[k].object.uid /\ inbox[k].object.uid < uids
      BY <3>1, <3>2, NoPortAssumption DEF Origins, Made, Lives
    <3> QED
      BY <1>0, <1>3, <3>1, <3>2, <3>3, Numbers
  <2>3. CASE Releases
    <3>1. pod' = pod /\ hand' = hand /\ pod.port # NoPort /\ pod.port # hand
      BY <1>1, <2>3, FaultStep, <1>0 DEF Releases, InHand, Exists
    <3> QED
      BY <3>1
  <2>4. CASE \/ HandlerIdle \/ \E p \in Ports : RequestVif(p)
             \/ pc' \in {"patch", "get"}
    BY <1>3, <2>4 DEF HandlerIdle, RequestVif
  <2> QED
    BY <1>0, <2>1, <2>2, <2>3, <2>4, HandlerStep DEF HandlerChanges
<1>4. ASSUME NEW p \in Ports, ports'[p] = "gone", portFor'[p] = uids'
      PROVE  pod'.port \notin {p, NoPort}
  <2>1. CASE ports[p] = "gone" /\ portFor[p] = uids'
    BY <1>1, <1>2, <2>1 DEF Spare
  <2>2. CASE DeletePort /\ hand = p /\ portFor[p] = uids'
    BY <1>1, <2>2 DEF Spare, DeletePort, clusterVars, Exists
  <2> QED
    BY <1>0, <1>4, <2>1, <2>2, PortStep DEF PortChanges
<1> QED
  BY <1>3, <1>4

-----------------------------------------------------------------------------
(* The first theorem.                                                       *)

LEMMA InitPorts ==
    ASSUME Init
    PROVE  PortInv
<1>1. Absent.port = NoPort /\ Absent.uid = 0
  BY DEF Absent
<1>2. Len(inbox) = 0 /\ uids = 0 /\ ~Exists /\ pod = Absent /\ obj = Absent
  BY <1>1 DEF Init, Exists
<1>3. Lives
  BY <1>1, <1>2 DEF Init, Lives
<1>4. Origins
  BY <1>1, <1>2 DEF Origins, Made
<1>5. InHand /\ Spare
  BY <1>2 DEF Init, InHand, Spare
<1> QED
  BY <1>3, <1>4, <1>5, InitInv DEF PortInv

LEMMA PortsStep ==
    ASSUME PortInv, [Next]_vars
    PROVE  PortInv'
BY TypeStep, KnownStep, BranchStep, AcceptableStep, ActiveUpStep,
   LivesStep, OriginsStep, InHandStep, SpareStep DEF PortInv, IndInv

\* The invariant holds in every reachable state.
THEOREM PortsInductive == Spec => []PortInv
<1>1. Init => PortInv
  BY InitPorts
<1>2. PortInv /\ [Next]_vars => PortInv'
  BY PortsStep
<1> QED
  BY <1>1, <1>2, PTL DEF Spec

\* The port created for a pod and annotated on it is not deleted while the pod
\* lives: release_vif gets the port of a pod that is gone, or a new one that
\* _set_vif could not annotate because the pod has another (on_present,
\* on_deleted).
THEOREM OwnPortSafe == Spec => []OwnPortExists
<1>1. ASSUME PortInv
      PROVE  OwnPortExists
  <2> SUFFICES ASSUME Exists, pod.port # NoPort, faults = 0, portFor[pod.port] = pod.uid
               PROVE  Alive(pod.port)
    BY DEF OwnPortExists
  <2>1. PICK p : p = pod.port
    OBVIOUS
  <2>2. p \in Ports /\ ports[p] \in {"none", "DOWN", "ACTIVE", "gone"} /\ pod.uid = uids
    BY <1>1, <2>1, Numbers DEF PortInv, IndInv, Lives
  <2>3. ports[p] # "none"
    BY <1>1, <2>1 DEF PortInv, Origins, Made
  <2>4. ports[p] # "gone"
    BY <1>1, <2>1, <2>2 DEF PortInv, Spare
  <2> QED
    BY <2>1, <2>2, <2>3, <2>4 DEF Alive
<1> QED
  BY <1>1, PortsInductive, PTL

-----------------------------------------------------------------------------
(* The first pod of the name, when nothing fails.                           *)

Held(p) == \/ pod.port = p
           \/ pc \in {"patch", "get"} /\ ~active /\ hand = p
           \/ pc = "release" /\ hand = p
           \/ \E i \in 1..Len(inbox) :
                 inbox[i].type = "DELETED" /\ inbox[i].object.port = p

Fresh == /\ uids = 0 => ~Exists /\ Len(inbox) = 0 /\ pc = "idle"
         /\ ~Exists => pod.port = NoPort

\* The DELETED event is the last one.
LastWord == \A i \in 1..Len(inbox) : inbox[i].type = "DELETED" => i = Len(inbox) /\ ~Exists

\* The host network is not chosen later, and such a pod has no VIF.
HostFixed == /\ \A i \in 1..Len(inbox) :
                  /\ Exists => inbox[i].object.host = pod.host
                  /\ inbox[i].object.port # NoPort => ~inbox[i].object.host
             /\ pod.port # NoPort => ~pod.host
             /\ Exists /\ pc \in {"request", "show", "patch", "get"} => ~pod.host

NoneLost == \A p \in Ports : Alive(p) => Held(p)

Quietly == Clean /\ uids <= 1
OnePod  == Quietly => Fresh /\ LastWord /\ HostFixed /\ NoneLost

\* What may happen without a failure.
LEMMA QuietStep ==
    ASSUME TypeOK, [Next]_vars, Quietly'
    PROVE  /\ Quietly /\ faults' = faults /\ ~Restart /\ ~Reconnect
           /\ uids' = uids + 1 => uids = 0
<1>0. restarts \in Nat /\ losses \in Nat /\ faults \in Nat /\ uids \in Nat
  BY DEF TypeOK, ClusterTypes, BoundTypes
<1>1. /\ restarts' = restarts \/ restarts' = restarts + 1
      /\ losses' = losses \/ losses' = losses + 1
  <2>1. CASE Cluster \/ Plug \/ PortUp \/ Restart \/ Reconnect \/ UNCHANGED vars
    BY <2>1 DEF Cluster, CreatePod, SchedulePod, TouchPod, RunPod, DeletePod, Plug,
                PortUp, Restart, Reconnect, vars, boundVars, breaks
  <2>2. CASE DriverStep
    BY <2>2 DEF DriverStep, RequestVif, RequestFails, ShowActive, RetryTimeout, ShowFails,
                DeletePort, DeleteFails, breaks
  <2>3. CASE AnnotateStep
    BY <2>3 DEF AnnotateStep, PatchOk, PatchConflict, PatchNotFound, GetRetry, GetDiffers,
                AnnotateBreaks, annotateVars, breaks
  <2>4. CASE \E k \in 1..Len(inbox) : TakeOne(k)
    BY <2>4 DEF TakeOne, Ignore, TakeRequest, TakeActivate, TakeRelease, Take, boundVars
  <2> QED
    BY <2>1, <2>2, <2>3, <2>4
       DEF Next, Handler, Failure, Quiet, DriverStep, AnnotateStep
<1>2. faults' = faults \/ faults' = faults + 1
  BY FaultStep
<1>3. restarts' = 0 /\ losses' = 0 /\ faults' = 0 /\ uids' <= 1
  BY DEF Quietly, Clean
<1>4. ~Restart /\ ~Reconnect
  BY <1>0, <1>3 DEF Restart, Reconnect
<1>5. uids' = uids \/ uids' = uids + 1
  BY PodStep DEF PodChanges, DeletePod
<1> QED
  BY <1>0, <1>1, <1>2, <1>3, <1>4, <1>5 DEF Quietly, Clean

\* Then no event is forgotten but those the handler skips.
QuietInbox ==
    \/ UNCHANGED inbox
    \/ inbox' = Append(inbox, Obituary) /\ DeletePod
    \/ \E e : Announces(e)
    \/ \E k \in 1..Len(inbox) : inbox' = SubSeq(inbox, k + 1, Len(inbox)) /\ Takes(k)

QuietPod ==
    \/ UNCHANGED <<pod, uids>>
    \/ DeletePod
    \/ /\ ~Exists /\ uids = 0 /\ uids' = 1 /\ Exists' /\ pod'.port = NoPort /\ UNCHANGED handlerVars
    \/ /\ Exists /\ Exists' /\ UNCHANGED uids /\ pod'.host = pod.host
       /\ pod'.port = pod.port \/ Annotating

LEMMA QuietChanges ==
    ASSUME TypeOK, Lives, [Next]_vars, Quietly'
    PROVE  QuietInbox /\ QuietPod
<1>1. PodChanges /\ InboxChanges /\ HandlerChanges
  BY PodStep, HandlerStep
<1>2. ~Restart /\ ~Reconnect /\ (uids' = uids + 1 => uids = 0)
  BY QuietStep
<1>3. ASSUME NEW k \in 1..Len(inbox), TakeOne(k)
      PROVE  Takes(k)
  BY <1>3 DEF TakeOne, Ignore, TakeRequest, TakeActivate, TakeRelease, Take, Takes,
              Present, Deleted, handlerVars
<1>4. QuietInbox
  BY <1>1, <1>2, <1>3 DEF InboxChanges, QuietInbox
<1>5. QuietPod
  <2>1. (\E e : Announces(e)) => Exists'
    BY DEF Announces
  <2>2. CASE CreatePod /\ ~Exists /\ uids' = uids + 1 /\ pod'.port = NoPort /\ Exists'
    BY <1>2, <2>2 DEF CreatePod, QuietPod
  <2> QED
    BY <1>1, <2>1, <2>2 DEF PodChanges, QuietPod
<1> QED
  BY <1>4, <1>5

\* The events before and after a step that does not fail.
LEMMA QuietEvent ==
    ASSUME TypeOK, QuietInbox, NEW i \in 1..Len(inbox')
    PROVE  \/ /\ i \in 1..Len(inbox) /\ inbox'[i] = inbox[i]
              /\ \/ Len(inbox') = Len(inbox)
                 \/ DeletePod
                 \/ \E e : Announces(e)
           \/ i = Len(inbox') /\ DeletePod /\ inbox'[i] = Obituary
           \/ Exists' /\ inbox'[i].type # "DELETED" /\ inbox'[i].object = pod'
           \/ \E k \in 1..Len(inbox) :
                 /\ k + i \in 1..Len(inbox) /\ inbox'[i] = inbox[k + i]
                 /\ Len(inbox') = Len(inbox) - k /\ UNCHANGED pod
<1>0. inbox \in Seq(Events)
  BY DEF TypeOK, ClusterTypes
<1>1. PICK s : s = inbox'
  OBVIOUS
<1>2. CASE UNCHANGED inbox
  BY <1>2
<1>3. ASSUME NEW e, inbox' = Append(inbox, e)
      PROVE  (i \in 1..Len(inbox) /\ inbox'[i] = inbox[i]) \/ (i = Len(inbox') /\ inbox'[i] = e)
  BY <1>0, <1>1, <1>3, Appended
<1>4. CASE inbox' = Append(inbox, Obituary) /\ DeletePod
  BY <1>3, <1>4
<1>5. CASE \E e : Announces(e)
  BY <1>3, <1>5 DEF Announces
<1>6. ASSUME NEW k \in 1..Len(inbox), inbox' = SubSeq(inbox, k + 1, Len(inbox)), Takes(k)
      PROVE  /\ k + i \in 1..Len(inbox) /\ inbox'[i] = inbox[k + i]
             /\ Len(inbox') = Len(inbox) - k /\ UNCHANGED pod
  BY <1>0, <1>6 DEF Takes
<1> QED
  BY <1>2, <1>4, <1>5, <1>6 DEF QuietInbox

LEMMA FreshStep ==
    ASSUME TypeOK, Fresh, QuietInbox, QuietPod, [Next]_vars
    PROVE  Fresh'
<1>1. Absent.port = NoPort /\ Absent.uid = 0 /\ uids \in Nat
  BY Numbers DEF Absent
<1>2. (~Exists => pod.port = NoPort)'
  BY <1>1 DEF QuietPod, DeletePod, Fresh, Exists
<1>3. ASSUME uids' = 0
      PROVE  ~Exists' /\ Len(inbox') = 0 /\ pc' = "idle"
  <2>1. UNCHANGED <<pod, uids>> /\ ~Exists /\ Len(inbox) = 0 /\ pc = "idle" /\ ~Exists'
    BY <1>1, <1>3 DEF QuietPod, DeletePod, Fresh, Exists
  <2>2. UNCHANGED inbox
    BY <2>1 DEF QuietInbox, DeletePod, Announces
  <2>3. pc' = "idle"
    <3>1. ~ \E k \in 1..Len(inbox) : Takes(k)
      BY <2>1
    <3> QED
      BY <2>1, <3>1, HandlerStep
         DEF HandlerChanges, handlerVars, HandlerIdle, RequestVif, Releases
  <2> QED
    BY <2>1, <2>2, <2>3
<1> QED
  BY <1>2, <1>3 DEF Fresh

LEMMA LastWordStep ==
    ASSUME TypeOK, Fresh, LastWord, QuietInbox, QuietPod
    PROVE  LastWord'
<1>0. inbox \in Seq(Events) /\ Absent.uid = 0
  BY DEF TypeOK, ClusterTypes, Absent
<1> SUFFICES ASSUME NEW i \in 1..Len(inbox'), inbox'[i].type = "DELETED"
             PROVE  i = Len(inbox') /\ ~Exists'
  BY DEF LastWord
<1>1. CASE i = Len(inbox') /\ DeletePod
  BY <1>0, <1>1 DEF DeletePod, Exists
<1>2. ASSUME i \in 1..Len(inbox), inbox'[i] = inbox[i]
      PROVE  i = Len(inbox) /\ ~Exists /\ ~DeletePod /\ ~Exists'
  BY <1>2 DEF LastWord, DeletePod, QuietPod, Fresh, Exists
<1>3. CASE \E k \in 1..Len(inbox) :
             /\ k + i \in 1..Len(inbox) /\ inbox'[i] = inbox[k + i]
             /\ Len(inbox') = Len(inbox) - k /\ UNCHANGED pod
  BY <1>0, <1>3 DEF LastWord, Exists
<1> QED
  BY <1>1, <1>2, <1>3, QuietEvent DEF Announces

LEMMA HostFixedStep ==
    ASSUME TypeOK, Fresh, HostFixed, QuietInbox, QuietPod, [Next]_vars
    PROVE  HostFixed'
<1>0. Absent.uid = 0 /\ Absent.port = NoPort /\ HandlerChanges
  BY HandlerStep DEF Absent
<1>1. (pod.port # NoPort => ~pod.host)'
  BY <1>0 DEF QuietPod, DeletePod, Annotating, HostFixed
<1>2. ASSUME NEW i \in 1..Len(inbox')
      PROVE  (/\ Exists => inbox[i].object.host = pod.host
              /\ inbox[i].object.port # NoPort => ~inbox[i].object.host)'
  <2>1. CASE Exists' /\ inbox'[i].object = pod'
    BY <1>1, <2>1
  <2>2. CASE DeletePod /\ inbox'[i] = Obituary
    <3>1. Obituary.object.host = pod.host /\ Obituary.object.port = pod.port
      BY DEF Obituary, Event, TypeOK, ClusterTypes, PodObjects
    <3>2. ~Exists'
      BY <1>0, <2>2 DEF DeletePod, Exists
    <3> QED
      BY <2>2, <3>1, <3>2 DEF HostFixed
  <2>3. ASSUME NEW j \in 1..Len(inbox), inbox'[i] = inbox[j]
        PROVE  (/\ Exists => inbox[i].object.host = pod.host
                /\ inbox[i].object.port # NoPort => ~inbox[i].object.host)'
    <3>1. Exists' => Exists /\ pod'.host = pod.host
      BY <1>0 DEF QuietPod, DeletePod, Fresh, Exists
    <3> QED
      BY <2>3, <3>1 DEF HostFixed
  <2> QED
    BY <2>1, <2>2, <2>3, QuietEvent
<1>3. ASSUME Exists', pc' \in {"request", "show", "patch", "get"}
      PROVE  ~pod'.host
  <2>1. CASE pc \in {"request", "show", "patch", "get"}
    BY <1>0, <1>3, <2>1 DEF QuietPod, DeletePod, Fresh, HostFixed, Exists
  <2>2. ASSUME NEW k \in 1..Len(inbox), Takes(k)
        PROVE  ~pod'.host
    BY <1>3, <2>2 DEF Takes, HostFixed, Exists
  <2> QED
    BY <1>0, <1>3, <2>1, <2>2
       DEF HandlerChanges, handlerVars, HandlerIdle, RequestVif, Releases
<1> QED
  BY <1>1, <1>2, <1>3 DEF HostFixed

\* A new VIF is annotated, or released, unless a request fails.
LEMMA NewVifStep ==
    ASSUME TypeOK, [Next]_vars, pc \in {"patch", "get"}, ~active,
           faults' = faults, ~Restart
    PROVE  \/ pc' \in {"patch", "get"} /\ UNCHANGED <<hand, active>>
           \/ pc' = "release" /\ hand' = hand
           \/ pod'.port = hand
<1>0. faults \in Nat /\ pod \in PodObjects /\ hand \in Ports /\ active \in BOOLEAN
  BY DEF TypeOK, BoundTypes, ClusterTypes, HandlerTypes
<1>1. CASE PatchOk
  <2>1. Annotated.port = hand
    BY <1>0 DEF Annotated, PodObjects
  <2>2. CASE Annotated = pod /\ UNCHANGED pod
    BY <2>1, <2>2
  <2>3. CASE Store("MODIFIED", Annotated)
    <3>1. [Annotated EXCEPT !.ver = version + 1].port = Annotated.port
      BY <1>0 DEF Annotated, PodObjects
    <3> QED
      BY <2>1, <2>3, <3>1 DEF Store
  <2> QED
    BY <1>1, <2>2, <2>3 DEF PatchOk, Apply
<1>2. CASE AnnotateStep /\ ~PatchOk
  BY <1>0, <1>2 DEF AnnotateStep, PatchConflict, PatchNotFound, GetRetry, GetDiffers,
                    AnnotateBreaks, AnnotateFails
<1>3. CASE ~AnnotateStep
  <2>1. UNCHANGED handlerVars
    BY <1>3 DEF Next, Cluster, CreatePod, SchedulePod, TouchPod, RunPod, DeletePod, Plug,
         PortUp, Reconnect, Handler, Failure, Quiet, vars, AnnotateStep, TakeOne, Ignore,
         TakeRequest, TakeActivate, TakeRelease, Take, RequestVif, RequestFails,
         ShowActive, RetryTimeout, ShowFails, DeletePort, DeleteFails
  <2> QED
    BY <2>1 DEF handlerVars
<1> QED
  BY <1>1, <1>2, <1>3

\* A release that does not fail is carried out.
LEMMA ReleaseStep ==
    ASSUME TypeOK, [Next]_vars, pc = "release", faults' = faults, ~Restart, ~DeletePort
    PROVE  UNCHANGED <<pc, hand>>
<1>1. faults' # faults + 1
  BY DEF TypeOK, BoundTypes
<1> QED
  BY <1>1 DEF Next, Cluster, CreatePod, SchedulePod, TouchPod, RunPod, DeletePod, Plug,
       PortUp, Reconnect, Handler, Failure, Quiet, vars, handlerVars, TakeOne, Ignore,
       TakeRequest, TakeActivate, TakeRelease, Take, RequestVif, RequestFails,
       ShowActive, RetryTimeout, ShowFails, DeleteFails, PatchOk, PatchConflict,
       PatchNotFound, GetRetry, GetDiffers, AnnotateBreaks

LEMMA NoneLostStep ==
    ASSUME PortInv, Quietly', Fresh, LastWord, HostFixed, NoneLost,
           QuietInbox, QuietPod, [Next]_vars
    PROVE  NoneLost'
<1>0. /\ TypeOK /\ inbox \in Seq(Events) /\ faults' = faults /\ ~Restart
      /\ HandlerChanges /\ faults \in Nat
  BY QuietStep, HandlerStep DEF PortInv, IndInv, TypeOK, ClusterTypes, BoundTypes
<1> SUFFICES ASSUME NEW p \in Ports, Alive(p)'
             PROVE  Held(p)'
  BY DEF NoneLost
<1>1. CASE RequestVif(p)
  BY <1>1 DEF RequestVif, Held
<1>2. CASE ~RequestVif(p)
  <2>1. Alive(p) /\ ~(DeletePort /\ hand = p)
    BY <1>0, <1>2, PortStep DEF PortChanges, Alive, DeletePort, TypeOK, NeutronTypes
  <2>2. CASE pod.port = p
    <3>1. Exists
      BY <2>2, NoPortAssumption DEF Fresh
    <3>2. CASE pod'.port = p
      BY <3>2 DEF Held
    <3>3. CASE DeletePod
      <4>1. inbox' = Append(inbox, Obituary)
        BY <3>3 DEF DeletePod, Obituary
      <4>2. Obituary.type = "DELETED" /\ Obituary.object.port = pod.port
        BY <1>0 DEF Obituary, Event, TypeOK, ClusterTypes, PodObjects
      <4>3. inbox'[Len(inbox')] = Obituary /\ Len(inbox') \in 1..Len(inbox')
        BY <1>0, <4>1
      <4> QED
        BY <2>2, <4>2, <4>3 DEF Held
    <3>4. CASE Annotating
      BY <2>2, <3>1, <3>4, NoPortAssumption DEF Annotating, Held, PortInv, IndInv, Acceptable
    <3> QED
      BY <2>2, <3>1, <3>2, <3>3, <3>4 DEF QuietPod
  <2>3. CASE pc \in {"patch", "get"} /\ ~active /\ hand = p
    <3>1. active' = active \/ pc' \notin {"patch", "get"} \/ pod'.port = hand
      BY <1>0, <2>3, NewVifStep
    <3> QED
      BY <1>0, <2>3, NewVifStep DEF Held
  <2>4. CASE pc = "release" /\ hand = p
    BY <1>0, <2>1, <2>4, ReleaseStep DEF Held
  <2>5. ASSUME NEW i \in 1..Len(inbox), inbox[i].type = "DELETED", inbox[i].object.port = p
        PROVE  Held(p)'
    <3>1. i = Len(inbox) /\ ~Exists
      BY <2>5 DEF LastWord
    <3>2. CASE UNCHANGED inbox
      BY <2>5, <3>2 DEF Held
    <3>3. ASSUME NEW e, inbox' = Append(inbox, e)
          PROVE  Held(p)'
      <4>1. i \in 1..Len(inbox') /\ inbox'[i] = inbox[i]
        BY <1>0, <3>3
      <4> QED
        BY <2>5, <4>1 DEF Held
    <3>4. ASSUME NEW k \in 1..Len(inbox), inbox' = SubSeq(inbox, k + 1, Len(inbox)), Takes(k)
          PROVE  Held(p)'
      <4>1. CASE k < i
        <5>1. i - k \in 1..Len(inbox') /\ inbox'[i - k] = inbox[i]
          BY <1>0, <3>4, <4>1
        <5> QED
          BY <2>5, <5>1 DEF Held
      <4>2. CASE k = i
        <5>1. Deleted(inbox[k].object)
          BY <2>5, <4>2, NoPortAssumption DEF HostFixed, Deleted
        <5> QED
          BY <2>5, <3>4, <4>2, <5>1
             DEF Takes, TakeOne, Ignore, TakeRequest, TakeActivate, TakeRelease, Held
      <4> QED
        BY <1>0, <3>1, <3>4, <4>1, <4>2
    <3> QED
      BY <3>2, <3>3, <3>4 DEF QuietInbox, Announces
  <2> QED
    BY <2>1, <2>2, <2>3, <2>4, <2>5 DEF NoneLost, Held
<1> QED
  BY <1>1, <1>2

-----------------------------------------------------------------------------
(* The second theorem.                                                      *)

\* So does what is known of the first pod of the name.
THEOREM OnePodInductive == Spec => [](PortInv /\ OnePod)
<1>1. Init => PortInv /\ OnePod
  <2>1. Init => Fresh /\ LastWord /\ HostFixed /\ NoneLost
    BY DEF Init, Fresh, LastWord, HostFixed, NoneLost, Absent, Exists, Alive
  <2> QED
    BY <2>1, InitPorts DEF OnePod
<1>2. ASSUME PortInv, OnePod, [Next]_vars
      PROVE  OnePod'
  <2> SUFFICES ASSUME Quietly'
               PROVE  (Fresh /\ LastWord /\ HostFixed /\ NoneLost)'
    BY DEF OnePod
  <2>1. Fresh /\ LastWord /\ HostFixed /\ NoneLost /\ TypeOK /\ Lives
    BY <1>2, QuietStep DEF OnePod, PortInv, IndInv
  <2>2. QuietInbox /\ QuietPod
    BY <1>2, <2>1, QuietChanges
  <2> QED
    BY <1>2, <2>1, <2>2, FreshStep, LastWordStep, HostFixedStep, NoneLostStep
<1>3. PortInv /\ OnePod /\ [Next]_vars => (PortInv /\ OnePod)'
  BY <1>2, PortsStep
<1> QED
  BY <1>1, <1>3, PTL DEF Spec

\* As long as the name is not reused and nothing fails, every port is annotated,
\* in the handler's hands, or in the DELETED event to come: the events that
\* Async skips are older than the one it takes, and a new VIF that is not
\* annotated is released (on_present).
THEOREM NoOrphan == Spec => []NoOrphanPort
<1>1. ASSUME PortInv, OnePod
      PROVE  NoOrphanPort
  <2> SUFFICES ASSUME Clean, uids <= 1, NEW p \in Ports, Alive(p)
               PROVE  Accounted(p)
    BY DEF NoOrphanPort
  <2>1. Held(p) /\ Fresh
    BY <1>1 DEF OnePod, Quietly, NoneLost
  <2> QED
    BY <2>1, NoPortAssumption DEF Held, Accounted, Fresh
<1> QED
  BY <1>1, OnePodInductive, PTL

=============================================================================
