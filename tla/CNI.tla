--------------------------------- MODULE CNI ----------------------------------
(***************************************************************************)
(* The CNI driver (cni/main.py, api.py, handlers.py, binding/).  kubelet   *)
(* starts a process to add a pod to the network or to delete it.  The      *)
(* process watches the pod by its name until it meets the VIF in the pod's *)
(* annotation, plugs or unplugs it, and, to add it, waits for the VIF to   *)
(* become active.  An alarm ends it wherever it is.                        *)
(*                                                                         *)
(* Pods of one name come one after the other, pod u with port u.  The      *)
(* processes of two of them may run at the same time.                      *)
(***************************************************************************)
EXTENDS VifTranslation, Sequences

CONSTANTS MaxUid,       \* bound: pods of the name
          MaxCommands,  \* bound: commands of kubelet
          MaxTroubles   \* bound: failing calls and ending streams

ASSUME BoundAssumption == MaxUid \in Nat /\ MaxCommands \in Nat /\ MaxTroubles \in Nat

Uids == 1..MaxUid

VARIABLES subnets,   \* of the pods, from PodSubnetsDriver.get_subnets
          log,       \* the objects of the name, as the API server had them
          cmd,       \* CNI_COMMAND of the pod's process, the last one it had
          pc,        \* where that is
          next,      \* the event it handles or waits for
          vif,       \* the port of AddHandler._vif, 0 if None
          out,       \* what it wrote
          result,    \* its exit status
          netns,     \* the device in the pod's network namespace
          bridge,    \* the ports on the integration bridge
          mixed,     \* pods whose process took another pod's VIF for theirs
          commands, troubles

apiVars  == <<subnets, log>>
hostVars == <<netns, bridge>>
procVars == <<cmd, pc, next, vif, out, result>>
vars     == <<apiVars, procVars, hostVars, mixed, commands, troubles>>

NoDevice == [port |-> 0, addresses |-> {}]

Statuses  == {"none", "DOWN", "ACTIVE"}  \* of the VIF in the annotation
Objects   == [uid : Uids, vif : Statuses, deleted : BOOLEAN]
Results   == [port : Uids, ip : [Versions -> SubnetIds \cup {0}],
              gateway : [Versions -> SubnetIds \cup {0}]]
Documents == [msg : {"vif"}, vif : Results] \cup [msg : {"exception", "timeout"}]

TypeOK ==
    /\ subnets \in Mappings /\ log \in Seq(Objects)
    /\ cmd \in [Uids -> {"none", "ADD", "DEL"}]
    /\ pc \in [Uids -> {"off", "connect", "watch", "device", "attach",
                        "address", "answer", "detach", "exit"}]
    /\ next \in [Uids -> Nat \ {0}] /\ vif \in [Uids -> Uids \cup {0}]
    /\ out \in [Uids -> Seq(Documents)]
    /\ result \in [Uids -> {"none", "ok", "failed"}]
    /\ netns \in [Uids -> [port : Uids \cup {0}, addresses : SUBSET SubnetIds]]
    /\ bridge \subseteq Uids /\ mixed \subseteq Uids
    /\ commands \in Nat /\ troubles \in Nat

Init ==
    /\ subnets \in Mappings /\ log = <<>>
    /\ cmd = [u \in Uids |-> "none"] /\ pc = [u \in Uids |-> "off"]
    /\ next = [u \in Uids |-> 1] /\ vif = [u \in Uids |-> 0]
    /\ out = [u \in Uids |-> <<>>] /\ result = [u \in Uids |-> "none"]
    /\ netns = [u \in Uids |-> NoDevice] /\ bridge = {} /\ mixed = {}
    /\ commands = 0 /\ troubles = 0

-----------------------------------------------------------------------------
(* The API server.  The controller annotates a pod once it is scheduled,    *)
(* and again when its port is active.                                       *)

Current == log[Len(log)]
Present == log # <<>> /\ ~Current.deleted

PodCreated ==
    /\ ~Present
    /\ \E u \in Uids : /\ u = IF log = <<>> THEN 1 ELSE Current.uid + 1
                       /\ log' = Append(log, [uid |-> u, vif |-> "none",
                                              deleted |-> FALSE])
    /\ UNCHANGED <<subnets, procVars, hostVars, mixed, commands, troubles>>

VifAnnotated ==
    /\ Present
    /\ \E status \in {"DOWN", "ACTIVE"} \ {Current.vif} :
          /\ Current.vif # "ACTIVE"
          /\ log' = Append(log, [Current EXCEPT !.vif = status])
    /\ UNCHANGED <<subnets, procVars, hostVars, mixed, commands, troubles>>

PodDeleted ==
    /\ Present
    /\ log' = Append(log, [Current EXCEPT !.deleted = TRUE])
    /\ UNCHANGED <<subnets, procVars, hostVars, mixed, commands, troubles>>

-----------------------------------------------------------------------------
(* kubelet: one command for a pod at a time, ADD in a new namespace.        *)

\* K8sCNIPlugin.add, delete, _setup
Command(u, c) ==
    /\ pc[u] = "off"
    /\ commands < MaxCommands /\ commands' = commands + 1
    /\ IF c = "ADD" THEN /\ Present /\ Current.uid = u
                         /\ cmd[u] # "ADD" /\ netns[u] = NoDevice
                    ELSE cmd[u] = "ADD" \/ (cmd[u] = "DEL" /\ result[u] = "failed")
    /\ cmd' = [cmd EXCEPT ![u] = c]
    /\ pc' = [pc EXCEPT ![u] = "connect"]
    /\ out' = [out EXCEPT ![u] = <<>>]
    /\ result' = [result EXCEPT ![u] = "none"]
    /\ UNCHANGED <<apiVars, next, vif, hostVars, mixed, troubles>>

\* The namespace goes, with the device in it.
StopSandbox(u) ==
    /\ pc[u] = "off" /\ cmd[u] = "DEL" /\ netns[u] # NoDevice
    /\ netns' = [netns EXCEPT ![u] = NoDevice]
    /\ UNCHANGED <<apiVars, procVars, bridge, mixed, commands, troubles>>

-----------------------------------------------------------------------------
(* The watcher without a thread group, and K8sClient.watch.                 *)

Event(u) == log[next[u]]

Goes(u, there) == pc' = [pc EXCEPT ![u] = there]

\* Mutant: a stream that ended goes on with new events.
Connect_NewOnly(u) ==
    /\ pc[u] = "connect" /\ Goes(u, "watch")
    /\ next' = [next EXCEPT ![u] = Len(log) + 1]
    /\ UNCHANGED <<vif, hostVars, mixed>>

\* A stream begins with the object as it is.
Connect(u) ==
    /\ pc[u] = "connect" /\ Goes(u, "watch")
    /\ next' = [next EXCEPT ![u] = IF Present THEN Len(log) ELSE Len(log) + 1]
    /\ UNCHANGED <<vif, hostVars, mixed>>

StreamEnds(u) ==
    /\ pc[u] = "watch" /\ Goes(u, "connect")
    /\ troubles < MaxTroubles /\ troubles' = troubles + 1
    /\ UNCHANGED <<apiVars, cmd, next, vif, out, result, hostVars, mixed, commands>>

\* The VIF of the event, if the handler has to look at it.
Delivered(u) == pc[u] = "watch" /\ next[u] \in DOMAIN log
HasVif(u)    == ~Event(u).deleted /\ Event(u).vif # "none"

Mix(u) == mixed' = IF Event(u).uid = u THEN mixed ELSE mixed \cup {u, Event(u).uid}

Ignore(u) ==
    /\ Delivered(u) /\ ~HasVif(u)
    /\ next' = [next EXCEPT ![u] = @ + 1]
    /\ UNCHANGED <<pc, vif, hostVars, mixed>>

-----------------------------------------------------------------------------
(* AddHandler.                                                              *)

\* Mutant: the driver does not wait.
Ready_Always(u) == TRUE

Ready(u) == Event(u).vif = "ACTIVE"

\* The callback stops the watcher, otherwise the next event is waited for.
EventHandled(u) ==
    IF Ready(u) THEN Goes(u, "answer") /\ UNCHANGED next
                ELSE Goes(u, "watch") /\ next' = [next EXCEPT ![u] = @ + 1]

FirstVif(u) ==
    /\ Delivered(u) /\ HasVif(u) /\ cmd[u] = "ADD" /\ vif[u] = 0
    /\ vif' = [vif EXCEPT ![u] = Event(u).uid]
    /\ Goes(u, "device") /\ Mix(u)
    /\ UNCHANGED <<next, hostVars>>

LaterVif(u) ==
    /\ Delivered(u) /\ HasVif(u) /\ cmd[u] = "ADD" /\ vif[u] # 0
    /\ EventHandled(u) /\ Mix(u)
    /\ UNCHANGED <<vif, hostVars>>

\* The device of a port has one name on the host.
DeviceExists(u) == \E w \in Uids : netns[w].port = vif[u]

Device(u) ==
    /\ pc[u] = "device" /\ ~DeviceExists(u) /\ Goes(u, "attach")
    /\ netns' = [netns EXCEPT ![u].port = vif[u]]
    /\ UNCHANGED <<next, vif, bridge, mixed>>

Attach(u) ==
    /\ pc[u] = "attach" /\ Goes(u, "address")
    /\ bridge' = bridge \cup {vif[u]}
    /\ UNCHANGED <<next, vif, netns, mixed>>

\* _configure_l3: the addresses, then for each subnet its default route.
VifOf(u) == Vif(vif[u], FALSE, subnets)
AddIps(u) == netns' = [netns EXCEPT ![u].addresses = VifOf(u).subnets]

Address(u) ==
    /\ pc[u] = "address" /\ HasGateways(VifOf(u)) /\ AddIps(u)
    /\ EventHandled(u)
    /\ UNCHANGED <<vif, bridge, mixed>>

\* DelHandler
DelVif(u) ==
    /\ Delivered(u) /\ HasVif(u) /\ cmd[u] = "DEL"
    /\ Goes(u, "detach") /\ Mix(u)
    /\ UNCHANGED <<next, vif, hostVars>>

Detach(u) ==
    /\ pc[u] = "detach" /\ Goes(u, "exit")
    /\ bridge' = bridge \ {Event(u).uid}
    /\ UNCHANGED <<next, vif, netns, mixed>>

-----------------------------------------------------------------------------
(* CNIRunner.run, and run() of main.py.                                     *)

Write(u, document) == out' = [out EXCEPT ![u] = Append(@, document)]

\* _write_vif, or the exception it raises itself.
Answers(v) ==
    IF HasGateways(v)
    THEN {[msg |-> "vif", vif |-> CniResult(v, order)] : order \in Orders(v.subnets)}
    ELSE {[msg |-> "exception"]}

\* The VIF of the event, not the one that was plugged.
Answer(u) ==
    /\ pc[u] = "answer" /\ Goes(u, "exit")
    /\ \E document \in Answers(Vif(Event(u).uid, TRUE, subnets)) : Write(u, document)
    /\ UNCHANGED <<cmd, next, vif, result, hostVars, mixed>>

Exit(u) ==
    /\ pc[u] = "exit" /\ Goes(u, "off")
    /\ result' = [result EXCEPT ![u] =
                     IF \E i \in DOMAIN out[u] : out[u][i].msg = "exception"
                     THEN "failed" ELSE "ok"]
    /\ next' = [next EXCEPT ![u] = 1] /\ vif' = [vif EXCEPT ![u] = 0]
    /\ UNCHANGED <<cmd, out, hostVars, mixed>>

Excepted(u) ==
    /\ Goes(u, "exit") /\ Write(u, [msg |-> "exception"])
    /\ UNCHANGED <<cmd, next, vif, result, bridge, mixed>>

DeviceFails(u) ==
    /\ pc[u] = "device" /\ DeviceExists(u)
    /\ Excepted(u) /\ UNCHANGED netns

\* A subnet without a gateway, or a second default route of an IP version, which
\* Linux may refuse: the device and the addresses stay.
RouteFails(u) ==
    /\ pc[u] = "address" /\ AddIps(u)
    /\ ~HasGateways(VifOf(u)) \/ SharedVersion(VifOf(u))
    /\ Excepted(u)

Raises(u) ==
    /\ pc[u] \in {"connect", "watch", "device", "attach", "address", "detach"}
    /\ troubles < MaxTroubles /\ troubles' = troubles + 1
    /\ Excepted(u) /\ UNCHANGED netns
    /\ UNCHANGED <<apiVars, commands>>

\* _timeout: it writes its document whether or not there is one already.
Alarm(u) ==
    /\ pc[u] # "off" /\ Goes(u, "off")
    /\ Write(u, [msg |-> "timeout"])
    /\ result' = [result EXCEPT ![u] = "failed"]
    /\ next' = [next EXCEPT ![u] = 1] /\ vif' = [vif EXCEPT ![u] = 0]
    /\ UNCHANGED <<apiVars, cmd, hostVars, mixed, commands, troubles>>

-----------------------------------------------------------------------------
Handler(u) == /\ \/ Connect(u) \/ Ignore(u) \/ FirstVif(u) \/ LaterVif(u)
                 \/ Device(u) \/ Attach(u) \/ Address(u) \/ DelVif(u) \/ Detach(u)
              /\ UNCHANGED <<cmd, out, result>>

Process(u) == /\ Handler(u) \/ Answer(u) \/ Exit(u)
                 \/ DeviceFails(u) \/ RouteFails(u)
              /\ UNCHANGED <<apiVars, commands, troubles>>

Next ==
    \/ PodCreated \/ VifAnnotated \/ PodDeleted
    \/ \E u \in Uids :
          \/ \E c \in {"ADD", "DEL"} : Command(u, c)
          \/ StopSandbox(u)
          \/ Process(u) \/ StreamEnds(u) \/ Raises(u) \/ Alarm(u)

Spec == Init /\ [][Next]_vars

\* A process runs; the alarm may never have to ring.
FairSpec == Spec /\ \A u \in Uids : WF_vars(Process(u))

-----------------------------------------------------------------------------
(* Properties.                                                              *)

WasActive(u) == \E i \in DOMAIN log : log[i].uid = u /\ log[i].vif = "ACTIVE"

Connected(u) ==
    /\ netns[u] = [port |-> u, addresses |-> VifSubnets(FixedIps(subnets), subnets)]
    /\ u \in bridge /\ WasActive(u)
    /\ Len(out[u]) = 1 /\ out[u][1].msg = "vif" /\ out[u][1].vif.port = u

\* What kubelet takes for done is done: an ADD that ends well has written one
\* result, and the pod's port is plugged with all its addresses and has become
\* active; a DEL that ends well has taken the port off the bridge.  (Pods whose
\* name was used again too early are excepted.)
OkMeansDone ==
    \A u \in Uids \ mixed :
        result[u] = "ok" => IF cmd[u] = "ADD" THEN Connected(u) ELSE u \notin bridge

\* What an ADD prints is what it has plugged, although it prints the VIF of a
\* later event: the same port, for each IP version the pod was asked a subnet of
\* one of the addresses in its namespace, in a subnet that was asked for, and
\* the gateway of that subnet.
ResultIsPlugged ==
    \A u \in Uids \ mixed : \A i \in DOMAIN out[u] : out[u][i].msg = "vif" =>
        /\ out[u][i].vif.port = netns[u].port
        /\ \A v \in Versions :
              LET asked == {s \in subnets : Version(s) = v}
                  ip    == out[u][i].vif.ip[v]
              IN  /\ IF asked = {} THEN ip = 0 ELSE ip \in asked \cap netns[u].addresses
                  /\ out[u][i].vif.gateway[v] = ip

\* A pod with an active VIF that stays is not what a process waits for until
\* the alarm rings, whatever events it missed.
Answered ==
    \A u \in Uids :
        <>[](Present /\ Current.uid = u /\ Current.vif = "ACTIVE")
            => []<>(pc[u] = "off")
=============================================================================
