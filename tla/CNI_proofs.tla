------------------------------ MODULE CNI_proofs ------------------------------
(***************************************************************************)
(* Proofs about CNI: its type invariant, that a command that ends well has *)
(* been carried out, and that the result it prints is that of the port it  *)
(* has plugged, for any pods, commands, troubles and subnets.              *)
(*                                                                         *)
(* The inductive invariant follows a process from request to answer: what  *)
(* has been plugged so far at each place it can be, that it handles its    *)
(* pod's own events, or both pods are in `mixed', and that it has written  *)
(* nothing before it ends.                                                 *)
(***************************************************************************)
EXTENDS CNI, FiniteSetTheorems, TLAPS

-----------------------------------------------------------------------------
(* Types.                                                                   *)

LEMMA SubnetsOfVif ==
    ASSUME TypeOK
    PROVE  VifSubnets(FixedIps(subnets), subnets) \in SUBSET SubnetIds
BY SubnetAssumption DEF TypeOK, VifSubnets

LEMMA ResultTypes ==
    ASSUME TypeOK, NEW port \in Uids,
           NEW order \in Orders(Vif(port, TRUE, subnets).subnets)
    PROVE  /\ CniResult(Vif(port, TRUE, subnets), order) \in Results
           /\ CniResult(Vif(port, TRUE, subnets), order).port = port
<1>1. Vif(port, TRUE, subnets).subnets \in SUBSET SubnetIds /\ Vif(port, TRUE, subnets).id = port
  BY SubnetsOfVif DEF Vif
<1>2. \A S : LastOf(order, S) \in SubnetIds \cup {0}
  BY <1>1 DEF LastOf, Orders, Injection
<1> QED
  BY <1>1, <1>2 DEF CniResult, Results

\* A process at work has an event, with a VIF, and an ADD one to plug.
AtWork(u) ==
    /\ pc[u] \in {"device", "attach", "address", "answer", "detach"}
          => next[u] \in DOMAIN log /\ HasVif(u)
    /\ pc[u] \in {"device", "attach", "address"} => vif[u] # 0

LEMMA EventTypes ==
    ASSUME TypeOK, NEW u \in Uids, next[u] \in DOMAIN log
    PROVE  Event(u) \in Objects
BY DEF TypeOK, Event

LEMMA CurrentTypes ==
    ASSUME TypeOK, Present
    PROVE  Current \in Objects
BY DEF TypeOK, Present, Current

\* The log only grows.
LogGrows == \/ log' = log
            \/ \E o \in Objects : log' = Append(log, o)

LEMMA ApiTypes ==
    ASSUME TypeOK, PodCreated \/ VifAnnotated \/ PodDeleted
    PROVE  /\ \E o \in Objects : log' = Append(log, o)
           /\ UNCHANGED <<subnets, procVars, hostVars, mixed, commands, troubles>>
<1>1. CASE PodCreated
  BY <1>1 DEF PodCreated, Objects, Statuses
<1>2. CASE VifAnnotated
  <2>1. Current \in Objects
    BY <1>2, CurrentTypes DEF VifAnnotated
  <2> QED
    BY <1>2, <2>1 DEF VifAnnotated, Objects, Statuses
<1>3. CASE PodDeleted
  <2>1. Current \in Objects
    BY <1>3, CurrentTypes DEF PodDeleted
  <2> QED
    BY <1>3, <2>1 DEF PodDeleted, Objects
<1> QED
  BY <1>1, <1>2, <1>3

\* What a process changes of its own, and of what it shares.
Typed(u) ==
    /\ cmd' \in [Uids -> {"none", "ADD", "DEL"}]
    /\ pc' \in [Uids -> {"off", "connect", "watch", "device", "attach",
                         "address", "answer", "detach", "exit"}]
    /\ next' \in [Uids -> Nat \ {0}] /\ vif' \in [Uids -> Uids \cup {0}]
    /\ out' \in [Uids -> Seq(Documents)]
    /\ result' \in [Uids -> {"none", "ok", "failed"}]
    /\ netns' \in [Uids -> [port : Uids \cup {0}, addresses : SUBSET SubnetIds]]
    /\ bridge' \subseteq Uids /\ mixed' \subseteq Uids

LEMMA CommandTypes ==
    ASSUME TypeOK, NEW u \in Uids, NEW c \in {"ADD", "DEL"},
           Command(u, c) \/ StopSandbox(u)
    PROVE  Typed(u)
<1>1. CASE Command(u, c)
  <2>1. cmd' \in [Uids -> {"none", "ADD", "DEL"}]
    BY <1>1 DEF TypeOK, Command
  <2>2. out' \in [Uids -> Seq(Documents)]
    BY <1>1 DEF TypeOK, Command
  <2> QED
    BY <1>1, <2>1, <2>2 DEF TypeOK, Typed, Command, hostVars
<1>2. CASE StopSandbox(u)
  BY <1>2 DEF TypeOK, Typed, StopSandbox, NoDevice, procVars
<1> QED
  BY <1>1, <1>2

LEMMA HandlerTypes ==
    ASSUME TypeOK, NEW u \in Uids, AtWork(u), Handler(u)
    PROVE  Typed(u)
<1>1. UNCHANGED <<cmd, out, result>>
  BY DEF Handler
<1>2. CASE Connect(u)
  <2>1. Present => Len(log) \in Nat \ {0}
    BY DEF TypeOK, Present
  <2>2. Len(log) \in Nat
    BY DEF TypeOK
  <2>3. next' \in [Uids -> Nat \ {0}]
    BY <1>2, <2>1, <2>2 DEF TypeOK, Connect
  <2> QED
    BY <1>1, <1>2, <2>3 DEF TypeOK, Typed, Connect, Goes, hostVars
<1>3. CASE Ignore(u)
  BY <1>1, <1>3 DEF TypeOK, Typed, Ignore, hostVars
<1>4. ASSUME Delivered(u), HasVif(u) PROVE Event(u) \in Objects
  BY <1>4, EventTypes DEF Delivered
<1>5. ASSUME EventHandled(u)
       PROVE  /\ pc' \in [Uids -> {"off", "connect", "watch", "device", "attach",
                                   "address", "answer", "detach", "exit"}]
              /\ next' \in [Uids -> Nat \ {0}]
  <2>1. next[u] + 1 \in Nat \ {0}
    BY DEF TypeOK
  <2>2. next' \in [Uids -> Nat \ {0}]
    BY <1>5, <2>1 DEF TypeOK, EventHandled
  <2> QED
    BY <1>5, <2>2 DEF TypeOK, EventHandled, Goes
<1>6. CASE FirstVif(u)
  BY <1>1, <1>4, <1>6 DEF TypeOK, Typed, FirstVif, Goes, Mix, Objects, hostVars
<1>7. CASE LaterVif(u)
  <2>1. mixed' \subseteq Uids
    BY <1>4, <1>7 DEF TypeOK, LaterVif, Mix, Objects
  <2> QED
    BY <1>1, <1>7, <1>5, <2>1 DEF TypeOK, Typed, LaterVif, hostVars
<1>8. CASE Device(u)
  BY <1>1, <1>8 DEF TypeOK, Typed, Device, Goes
<1>9. CASE Attach(u)
  <2>1. bridge' \subseteq Uids
    BY <1>9 DEF TypeOK, AtWork, Attach
  <2> QED
    BY <1>1, <1>9, <2>1 DEF TypeOK, Typed, Attach, Goes
<1>10. CASE Address(u)
  <2>1. netns' \in [Uids -> [port : Uids \cup {0}, addresses : SUBSET SubnetIds]]
    BY <1>10, SubnetsOfVif DEF TypeOK, Address, AddIps, VifOf, Vif
  <2> QED
    BY <1>1, <1>10, <1>5, <2>1 DEF TypeOK, Typed, Address
<1>11. CASE DelVif(u)
  BY <1>1, <1>4, <1>11 DEF TypeOK, Typed, DelVif, Goes, Mix, Objects, hostVars
<1>12. CASE Detach(u)
  BY <1>1, <1>12 DEF TypeOK, Typed, Detach, Goes
<1> QED
  BY <1>2, <1>3, <1>6, <1>7, <1>8, <1>9, <1>10, <1>11, <1>12 DEF Handler

\* An exception that ends a handler, whatever it leaves behind.
Ending(u) == Excepted(u) /\ (UNCHANGED netns \/ AddIps(u))

LEMMA Endings ==
    ASSUME NEW u \in Uids, DeviceFails(u) \/ RouteFails(u) \/ Raises(u)
    PROVE  Ending(u) /\ pc[u] \notin {"off", "exit"}
BY DEF Ending, DeviceFails, RouteFails, Raises

LEMMA EndTypes ==
    ASSUME TypeOK, NEW u \in Uids, AtWork(u),
           Answer(u) \/ Exit(u) \/ Ending(u) \/ Alarm(u)
    PROVE  Typed(u)
<1>0. /\ \A d \in Documents : Write(u, d) => out' \in [Uids -> Seq(Documents)]
      /\ [msg |-> "exception"] \in Documents /\ [msg |-> "timeout"] \in Documents
  <2>1. \A d \in Documents : Append(out[u], d) \in Seq(Documents)
    BY DEF TypeOK
  <2> QED
    BY <2>1 DEF TypeOK, Write, Documents
<1>1. CASE Answer(u)
  <2>1. Event(u) \in Objects
    BY <1>1, EventTypes DEF Answer, AtWork
  <2>2. \A order \in Orders(Vif(Event(u).uid, TRUE, subnets).subnets) :
           CniResult(Vif(Event(u).uid, TRUE, subnets), order) \in Results
    BY <2>1, ResultTypes DEF Objects
  <2>3. out' \in [Uids -> Seq(Documents)]
    BY <1>0, <1>1, <2>2 DEF Answer, Answers, Documents, Vif
  <2> QED
    BY <1>1, <2>3 DEF TypeOK, Typed, Answer, Goes, hostVars
<1>2. CASE Exit(u)
  BY <1>2 DEF TypeOK, Typed, Exit, Goes, hostVars
<1>3. CASE Ending(u)
  <2>1. netns' \in [Uids -> [port : Uids \cup {0}, addresses : SUBSET SubnetIds]]
    <3>1. CASE UNCHANGED netns
      BY <3>1 DEF TypeOK
    <3>2. CASE AddIps(u)
      BY <3>2, SubnetsOfVif DEF TypeOK, AddIps, VifOf, Vif
    <3> QED
      BY <1>3, <3>1, <3>2 DEF Ending
  <2> QED
    BY <1>0, <1>3, <2>1 DEF TypeOK, Typed, Ending, Excepted, Goes
<1>4. CASE Alarm(u)
  BY <1>0, <1>4 DEF TypeOK, Typed, Alarm, Goes, hostVars
<1> QED
  BY <1>1, <1>2, <1>3, <1>4

LEMMA StepTypes ==
    ASSUME TypeOK, \A u \in Uids : AtWork(u), [Next]_vars
    PROVE  TypeOK' /\ LogGrows /\ subnets' = subnets
<1>1. CASE PodCreated \/ VifAnnotated \/ PodDeleted
  <2>1. /\ \E o \in Objects : log' = Append(log, o)
        /\ UNCHANGED <<subnets, procVars, hostVars, mixed, commands, troubles>>
    BY <1>1, ApiTypes
  <2>2. log' \in Seq(Objects)
    BY <2>1 DEF TypeOK
  <2> QED
    BY <2>1, <2>2 DEF TypeOK, LogGrows, procVars, hostVars
<1>2. ASSUME NEW u \in Uids, NEW c \in {"ADD", "DEL"}, Command(u, c) \/ StopSandbox(u)
      PROVE  TypeOK' /\ LogGrows /\ subnets' = subnets
  <2>1. /\ UNCHANGED apiVars /\ troubles' = troubles /\ commands' \in Nat
    BY <1>2 DEF TypeOK, Command, StopSandbox
  <2> QED
    BY <1>2, <2>1, CommandTypes DEF TypeOK, Typed, LogGrows, apiVars
<1>3. ASSUME NEW u \in Uids, Process(u) \/ Raises(u) \/ Alarm(u)
      PROVE  TypeOK' /\ LogGrows /\ subnets' = subnets
  <2>1. /\ UNCHANGED apiVars /\ commands' = commands /\ troubles' \in Nat
    BY <1>3 DEF TypeOK, Process, Raises, Alarm
  <2>2. Handler(u) \/ Answer(u) \/ Exit(u) \/ Ending(u) \/ Alarm(u)
    BY <1>3, Endings DEF Process
  <2> QED
    BY <2>1, <2>2, HandlerTypes, EndTypes DEF TypeOK, Typed, LogGrows, apiVars
<1>4. ASSUME NEW u \in Uids, StreamEnds(u)
      PROVE  TypeOK' /\ LogGrows /\ subnets' = subnets
  BY <1>4 DEF TypeOK, LogGrows, StreamEnds, Goes, apiVars, hostVars
<1>5. CASE UNCHANGED vars
  BY <1>5 DEF TypeOK, LogGrows, vars, apiVars, procVars, hostVars
<1> QED
  BY <1>1, <1>2, <1>3, <1>4, <1>5 DEF Next

-----------------------------------------------------------------------------
(* The inductive invariant.                                                 *)

Done(u) == IF cmd[u] = "ADD" THEN Connected(u) ELSE u \notin bridge

Plugged(u) ==
    /\ netns[u] = [port |-> u, addresses |-> VifSubnets(FixedIps(subnets), subnets)]
    /\ u \in bridge

Working == {"device", "attach", "address", "answer", "detach"}

\* A result is of the pod's own port, as it is plugged.
Printed(u) ==
    \A i \in DOMAIN out[u] : out[u][i].msg = "vif" =>
        out[u][i].vif.port = u /\ cmd[u] = "ADD" /\ Plugged(u)

Excepting(u) == \E i \in DOMAIN out[u] : out[u][i].msg = "exception"

Silent(u) ==
    /\ pc[u] \notin {"off", "exit"} => out[u] = <<>>
    /\ pc[u] # "off" => result[u] = "none"
    /\ pc[u] = "off" => vif[u] = 0

Own(u) ==
    /\ vif[u] # 0 => vif[u] = u \/ {u, vif[u]} \subseteq mixed
    /\ pc[u] \in Working => Event(u).uid = u \/ {u, Event(u).uid} \subseteq mixed

Progress(u) ==
    /\ pc[u] \in {"device", "attach", "address", "answer"} => cmd[u] = "ADD"
    /\ pc[u] = "detach" => cmd[u] = "DEL"
    /\ pc[u] \in {"attach", "address"} => netns[u].port = u
    /\ pc[u] = "address" => u \in bridge
    /\ pc[u] = "answer" => vif[u] # 0 /\ Ready(u)
    /\ pc[u] \in {"connect", "watch", "answer"} /\ vif[u] # 0 => Plugged(u)
    /\ Printed(u)
    /\ pc[u] = "exit" => Excepting(u) \/ Done(u)
    /\ result[u] = "ok" => Done(u)

PodInv(u) == AtWork(u) /\ Silent(u) /\ Own(u) /\ (u \notin mixed => Progress(u))

IInv == TypeOK /\ \A u \in Uids : PodInv(u)

\* Events stay what they are.
LEMMA EventKept ==
    ASSUME TypeOK, LogGrows, NEW u \in Uids, next'[u] = next[u], next[u] \in DOMAIN log
    PROVE  next'[u] \in DOMAIN log' /\ Event(u)' = Event(u)
<1>1. log' = log \/ \E o \in Objects : log' = Append(log, o)
  BY DEF LogGrows
<1>2. log \in Seq(Objects)
  BY DEF TypeOK
<1>3. \A i \in DOMAIN log : i \in DOMAIN log' /\ log'[i] = log[i]
  BY <1>1, <1>2
<1> QED
  BY <1>3 DEF Event

LEMMA ActiveKept ==
    ASSUME TypeOK, LogGrows, NEW u \in Uids, WasActive(u)
    PROVE  WasActive(u)'
<1>1. PICK i \in DOMAIN log : log[i].uid = u /\ log[i].vif = "ACTIVE"
  BY DEF WasActive
<1>2. i \in DOMAIN log' /\ log'[i] = log[i]
  BY DEF TypeOK, LogGrows
<1> QED
  BY <1>1, <1>2 DEF WasActive

\* What others do leaves a process where it is.
Left(u) ==
    /\ cmd'[u] = cmd[u] /\ pc'[u] = pc[u] /\ next'[u] = next[u]
    /\ vif'[u] = vif[u] /\ out'[u] = out[u] /\ result'[u] = result[u]
    /\ netns'[u] = netns[u]
    /\ mixed \subseteq mixed'
    /\ u \notin mixed' => (u \in bridge' <=> u \in bridge)

LEMMA Frame ==
    ASSUME TypeOK, LogGrows, subnets' = subnets, NEW u \in Uids, PodInv(u), Left(u)
    PROVE  PodInv(u)'
<1>1. pc[u] \in Working => next'[u] \in DOMAIN log' /\ Event(u)' = Event(u)
  BY EventKept DEF PodInv, AtWork, Left, Working
<1>2. AtWork(u)' /\ Silent(u)' /\ Own(u)'
  BY <1>1 DEF PodInv, AtWork, Silent, Own, Left, HasVif, Working
<1>3. ASSUME u \notin mixed' PROVE Progress(u)'
  <2>1. Progress(u) /\ (u \in bridge' <=> u \in bridge)
    BY <1>3 DEF PodInv, Left
  <2>2. Connected(u) => Connected(u)'
    BY <2>1, ActiveKept DEF Connected, Left, VifSubnets, FixedIps, RequestedIps
  <2>3. (Done(u) => Done(u)') /\ (Plugged(u) => Plugged(u)')
    BY <2>1, <2>2 DEF Done, Plugged, Left, VifSubnets, FixedIps, RequestedIps
  <2>4. pc[u] = "answer" => Ready(u)'
    BY <1>1, <2>1 DEF Progress, Ready, Working
  <2> QED
    BY <2>1, <2>3, <2>4 DEF Progress, Excepting, Printed, Left
<1> QED
  BY <1>2, <1>3 DEF PodInv

LEMMA OtherLeft ==
    ASSUME IInv, NEW u \in Uids, NEW w \in Uids, u # w,
           \/ \E c \in {"ADD", "DEL"} : Command(u, c)
           \/ StopSandbox(u) \/ Process(u) \/ StreamEnds(u) \/ Raises(u) \/ Alarm(u)
    PROVE  Left(w)
<1>0. TypeOK /\ PodInv(u)
  BY DEF IInv
<1>1. CASE (\E c \in {"ADD", "DEL"} : Command(u, c)) \/ StopSandbox(u) \/ StreamEnds(u)
  BY <1>0, <1>1 DEF TypeOK, Left, Command, StopSandbox, StreamEnds, Goes, hostVars,
                    procVars
<1>2. CASE Answer(u) \/ Exit(u) \/ Ending(u) \/ Alarm(u)
  <2>1. CASE Answer(u)
    BY <1>0, <2>1 DEF TypeOK, Left, Answer, Write, Goes, hostVars
  <2>2. CASE Exit(u)
    BY <1>0, <2>2 DEF TypeOK, Left, Exit, Goes, hostVars
  <2>3. CASE Ending(u)
    BY <1>0, <2>3 DEF TypeOK, Left, Ending, AddIps, Excepted, Write, Goes
  <2>4. CASE Alarm(u)
    BY <1>0, <2>4 DEF TypeOK, Left, Alarm, Write, Goes, hostVars
  <2> QED
    BY <1>2, <2>1, <2>2, <2>3, <2>4
<1>3. CASE Handler(u)
  <2>1. CASE Connect(u) \/ Ignore(u) \/ FirstVif(u) \/ LaterVif(u) \/ DelVif(u)
    BY <1>0, <1>3, <2>1
       DEF TypeOK, Left, Handler, Connect, Ignore, FirstVif, LaterVif, DelVif,
           EventHandled, Mix, Goes, hostVars
  <2>2. CASE Device(u) \/ Address(u)
    BY <1>0, <1>3, <2>2
       DEF TypeOK, Left, Handler, Device, Address, AddIps, EventHandled, Goes
  <2>3. CASE Attach(u)
    <3>1. w \notin mixed => vif[u] # w
      BY <1>0, <2>3 DEF Attach, PodInv, AtWork, Own
    <3> QED
      BY <1>0, <1>3, <2>3, <3>1 DEF TypeOK, Left, Handler, Attach, Goes
  <2>4. CASE Detach(u)
    <3>1. w \notin mixed => Event(u).uid # w
      BY <1>0, <2>4 DEF Detach, PodInv, Own, Working
    <3> QED
      BY <1>0, <1>3, <2>4, <3>1 DEF TypeOK, Left, Handler, Detach, Goes
  <2> QED
    BY <1>3, <2>1, <2>2, <2>3, <2>4 DEF Handler
<1> QED
  BY <1>1, <1>2, <1>3, Endings DEF Process

-----------------------------------------------------------------------------
(* A process's own steps.                                                   *)

LEMMA CommandStep ==
    ASSUME IInv, NEW u \in Uids, NEW c \in {"ADD", "DEL"},
           Command(u, c) \/ StopSandbox(u)
    PROVE  PodInv(u)'
<1>0. TypeOK /\ PodInv(u) /\ pc[u] = "off"
  BY DEF IInv, Command, StopSandbox
<1>1. CASE Command(u, c)
  <2>1. /\ pc'[u] = "connect" /\ vif'[u] = 0 /\ out'[u] = <<>> /\ result'[u] = "none"
    BY <1>0, <1>1 DEF TypeOK, PodInv, Silent, Command
  <2> QED
    BY <2>1 DEF PodInv, AtWork, Silent, Own, Progress, Printed, Working
<1>2. CASE StopSandbox(u)
  <2>1. /\ pc'[u] = "off" /\ vif'[u] = 0 /\ result' = result /\ cmd' = cmd
        /\ cmd[u] = "DEL" /\ bridge' = bridge /\ mixed' = mixed /\ out' = out
    BY <1>0, <1>2 DEF PodInv, Silent, StopSandbox, procVars
  <2> QED
    BY <1>0, <2>1 DEF PodInv, AtWork, Silent, Own, Progress, Printed, Working, Done
<1> QED
  BY <1>1, <1>2

LEMMA WatchStep ==
    ASSUME IInv, NEW u \in Uids, subnets' = subnets,
           \/ Handler(u) /\ (Connect(u) \/ Ignore(u))
           \/ StreamEnds(u)
    PROVE  PodInv(u)'
<1>1. /\ TypeOK /\ PodInv(u) /\ pc[u] \in {"connect", "watch"}
      /\ pc'[u] \in {"connect", "watch"} /\ UNCHANGED <<cmd, vif, out, result, mixed>>
      /\ UNCHANGED hostVars /\ result[u] = "none"
  BY DEF IInv, TypeOK, PodInv, Silent, Handler, Connect, Ignore, Delivered,
         StreamEnds, Goes
<1> QED
  BY <1>1 DEF PodInv, AtWork, Silent, Own, Progress, Printed, Plugged, Working, hostVars,
                    VifSubnets, FixedIps, RequestedIps

\* The event of a handler that has begun.
LEMMA DeliveredEvent ==
    ASSUME IInv, NEW u \in Uids, Delivered(u), HasVif(u), Mix(u)
    PROVE  /\ next[u] \in DOMAIN log /\ Event(u) \in Objects
           /\ Event(u).uid = u \/ {u, Event(u).uid} \subseteq mixed'
           /\ mixed \subseteq mixed'
BY EventTypes DEF IInv, Delivered, Mix

LEMMA HandledStep ==
    ASSUME TypeOK, NEW u \in Uids, EventHandled(u)
    PROVE  \/ pc'[u] = "answer" /\ Ready(u) /\ next'[u] = next[u]
           \/ pc'[u] = "watch"
BY DEF TypeOK, EventHandled, Goes

LEMMA BeginStep ==
    ASSUME IInv, NEW u \in Uids, subnets' = subnets, log' = log,
           Handler(u), FirstVif(u) \/ DelVif(u)
    PROVE  PodInv(u)'
<1>1. /\ next[u] \in DOMAIN log /\ Event(u) \in Objects
      /\ Event(u).uid = u \/ {u, Event(u).uid} \subseteq mixed'
      /\ mixed \subseteq mixed' /\ HasVif(u)
  BY DeliveredEvent DEF FirstVif, DelVif
<1>2. /\ TypeOK /\ PodInv(u) /\ pc[u] = "watch" /\ result[u] = "none"
      /\ out[u] = <<>>
  BY DEF IInv, PodInv, Silent, FirstVif, DelVif, Delivered
<1>3. /\ cmd' = cmd /\ out' = out /\ result' = result /\ next' = next
      /\ HasVif(u)' /\ Event(u)' = Event(u)
  BY <1>1 DEF Handler, FirstVif, DelVif, HasVif, Event
<1>4. CASE FirstVif(u)
  <2>1. /\ pc'[u] = "device" /\ vif'[u] = Event(u).uid /\ vif'[u] # 0 /\ cmd[u] = "ADD"
    BY <1>1, <1>2, <1>4 DEF TypeOK, FirstVif, Goes, Objects, Uids
  <2> QED
    BY <1>1, <1>2, <1>3, <2>1 DEF PodInv, AtWork, Silent, Own, Progress, Printed, Working
<1>5. CASE DelVif(u)
  <2>1. /\ pc'[u] = "detach" /\ vif' = vif /\ cmd[u] = "DEL"
    BY <1>2, <1>5 DEF TypeOK, DelVif, Goes
  <2> QED
    BY <1>1, <1>2, <1>3, <2>1 DEF PodInv, AtWork, Silent, Own, Progress, Printed, Working
<1> QED
  BY <1>4, <1>5

LEMMA LaterStep ==
    ASSUME IInv, NEW u \in Uids, subnets' = subnets, log' = log,
           Handler(u), LaterVif(u)
    PROVE  PodInv(u)'
<1>1. /\ next[u] \in DOMAIN log /\ HasVif(u)
      /\ Event(u).uid = u \/ {u, Event(u).uid} \subseteq mixed'
      /\ mixed \subseteq mixed'
  BY DeliveredEvent DEF LaterVif
<1>2. /\ TypeOK /\ PodInv(u) /\ pc[u] = "watch" /\ result[u] = "none"
      /\ out[u] = <<>> /\ cmd[u] = "ADD" /\ vif[u] # 0
  BY DEF IInv, PodInv, Silent, LaterVif, Delivered
<1>3. /\ cmd' = cmd /\ out' = out /\ result' = result /\ vif' = vif
      /\ UNCHANGED hostVars /\ (Plugged(u) => Plugged(u)')
  BY DEF Handler, LaterVif, Plugged, hostVars, VifSubnets, FixedIps, RequestedIps
<1>4. CASE pc'[u] = "answer" /\ Ready(u) /\ next'[u] = next[u]
  <2>1. HasVif(u)' /\ Event(u)' = Event(u) /\ Ready(u)'
    BY <1>1, <1>4 DEF HasVif, Event, Ready
  <2>2. next'[u] \in DOMAIN log' /\ (u \notin mixed' => Plugged(u)')
    BY <1>1, <1>2, <1>3, <1>4 DEF PodInv, Progress
  <2>3. AtWork(u)' /\ Silent(u)' /\ Own(u)'
    BY <1>1, <1>2, <1>3, <1>4, <2>1, <2>2 DEF PodInv, AtWork, Silent, Own, Working
  <2> QED
    BY <1>2, <1>3, <1>4, <2>1, <2>2, <2>3 DEF PodInv, Progress, Printed
<1>5. CASE pc'[u] = "watch"
  BY <1>1, <1>2, <1>3, <1>5 DEF PodInv, AtWork, Silent, Own, Progress, Printed, Working
<1> QED
  BY <1>2, <1>4, <1>5, HandledStep DEF LaterVif

LEMMA PlugStep ==
    ASSUME IInv, NEW u \in Uids, subnets' = subnets, log' = log,
           Handler(u), Device(u) \/ Attach(u)
    PROVE  PodInv(u)'
<1>1. /\ TypeOK /\ PodInv(u) /\ pc[u] \in {"device", "attach"}
      /\ next[u] \in DOMAIN log /\ HasVif(u) /\ vif[u] # 0
      /\ result[u] = "none" /\ out[u] = <<>>
      /\ Event(u).uid = u \/ {u, Event(u).uid} \subseteq mixed
  BY DEF IInv, PodInv, AtWork, Silent, Own, Working, Device, Attach
<1>2. /\ cmd' = cmd /\ out' = out /\ result' = result /\ next' = next /\ vif' = vif
      /\ mixed' = mixed /\ HasVif(u)' /\ Event(u)' = Event(u)
  BY <1>1 DEF Handler, Device, Attach, HasVif, Event
<1>3. vif[u] = u \/ u \in mixed
  BY <1>1 DEF PodInv, Own
<1>4. CASE Device(u)
  <2>1. pc'[u] = "attach" /\ netns'[u].port = vif[u]
    BY <1>1, <1>4 DEF TypeOK, Device, Goes
  <2> QED
    BY <1>1, <1>2, <1>3, <1>4, <2>1
       DEF PodInv, AtWork, Silent, Own, Progress, Printed, Working, Device
<1>5. CASE Attach(u)
  <2>1. pc'[u] = "address" /\ vif[u] \in bridge' /\ netns' = netns
    BY <1>1, <1>5 DEF TypeOK, Attach, Goes
  <2> QED
    BY <1>1, <1>2, <1>3, <1>5, <2>1
       DEF PodInv, AtWork, Silent, Own, Progress, Printed, Working, Attach
<1> QED
  BY <1>4, <1>5

LEMMA AddressStep ==
    ASSUME IInv, NEW u \in Uids, subnets' = subnets, log' = log,
           Handler(u), Address(u)
    PROVE  PodInv(u)'
<1>1. /\ TypeOK /\ PodInv(u) /\ pc[u] = "address"
      /\ next[u] \in DOMAIN log /\ HasVif(u) /\ vif[u] # 0
      /\ result[u] = "none" /\ out[u] = <<>>
      /\ Event(u).uid = u \/ {u, Event(u).uid} \subseteq mixed
      /\ u \notin mixed => cmd[u] = "ADD" /\ netns[u].port = u /\ u \in bridge
  BY DEF IInv, PodInv, AtWork, Silent, Own, Progress, Printed, Working, Address
<1>2. /\ cmd' = cmd /\ out' = out /\ result' = result /\ vif' = vif
      /\ mixed' = mixed /\ bridge' = bridge
  BY DEF Handler, Address
<1>3. u \notin mixed => Plugged(u)'
  <2>1. netns'[u] = [netns[u] EXCEPT !.addresses =
                        VifSubnets(FixedIps(subnets), subnets)]
    BY <1>1 DEF TypeOK, Address, AddIps, VifOf, Vif
  <2>2. netns[u] \in [port : Uids \cup {0}, addresses : SUBSET SubnetIds]
    BY <1>1 DEF TypeOK
  <2>3. netns'[u] = [port |-> netns[u].port,
                     addresses |-> VifSubnets(FixedIps(subnets), subnets)]
    BY <2>1, <2>2
  <2> QED
    BY <1>1, <1>2, <2>3 DEF Plugged, VifSubnets, FixedIps, RequestedIps
<1>4. CASE pc'[u] = "answer" /\ Ready(u) /\ next'[u] = next[u]
  <2>1. HasVif(u)' /\ Event(u)' = Event(u) /\ Ready(u)'
    BY <1>1, <1>4 DEF HasVif, Event, Ready
  <2>2. AtWork(u)' /\ Silent(u)' /\ Own(u)'
    BY <1>1, <1>2, <1>4, <2>1 DEF PodInv, AtWork, Silent, Own, Working
  <2> QED
    BY <1>1, <1>2, <1>3, <1>4, <2>1, <2>2 DEF PodInv, Progress, Printed
<1>5. CASE pc'[u] = "watch"
  BY <1>1, <1>2, <1>3, <1>5 DEF PodInv, AtWork, Silent, Own, Progress, Printed, Working
<1> QED
  BY <1>1, <1>4, <1>5, HandledStep DEF Address

LEMMA DetachStep ==
    ASSUME IInv, NEW u \in Uids, Handler(u), Detach(u)
    PROVE  PodInv(u)'
<1>1. /\ TypeOK /\ PodInv(u) /\ pc[u] = "detach"
      /\ result[u] = "none" /\ out[u] = <<>>
      /\ Event(u).uid = u \/ {u, Event(u).uid} \subseteq mixed
      /\ u \notin mixed => cmd[u] = "DEL"
  BY DEF IInv, PodInv, Silent, Own, Progress, Printed, Working, Detach
<1>2. /\ cmd' = cmd /\ out' = out /\ result' = result /\ vif' = vif
      /\ mixed' = mixed /\ bridge' = bridge \ {Event(u).uid} /\ pc'[u] = "exit"
  BY <1>1 DEF TypeOK, Handler, Detach, Goes
<1> QED
  BY <1>1, <1>2 DEF PodInv, AtWork, Silent, Own, Progress, Printed, Working, Done

-----------------------------------------------------------------------------
(* The end of a process.                                                    *)

LEMMA AnswerStep ==
    ASSUME IInv, NEW u \in Uids, UNCHANGED apiVars, Answer(u)
    PROVE  PodInv(u)'
<1>1. /\ TypeOK /\ PodInv(u) /\ pc[u] = "answer"
      /\ next[u] \in DOMAIN log /\ Event(u) \in Objects
      /\ result[u] = "none" /\ out[u] = <<>>
      /\ Event(u).uid = u \/ {u, Event(u).uid} \subseteq mixed
  BY EventTypes DEF IInv, PodInv, AtWork, Silent, Own, Working, Answer
<1>2. /\ cmd' = cmd /\ result' = result /\ vif' = vif
      /\ mixed' = mixed /\ UNCHANGED hostVars /\ pc'[u] = "exit"
  BY <1>1 DEF TypeOK, Answer, Goes
<1>3. \A d : Write(u, d) => out'[u] = <<d>>
  <2>1. \A d : Append(<<>>, d) = <<d>>
    OBVIOUS
  <2> QED
    BY <1>1, <2>1 DEF TypeOK, Write
<1>4. CASE Write(u, [msg |-> "exception"])
  <2>1. out'[u] = <<[msg |-> "exception"]>>
    BY <1>3, <1>4
  <2>2. Excepting(u)'
    BY <2>1 DEF Excepting
  <2> QED
    BY <1>1, <1>2, <2>1, <2>2
       DEF PodInv, AtWork, Silent, Own, Progress, Printed, Working
<1>5. ASSUME NEW order \in Orders(Vif(Event(u).uid, TRUE, subnets).subnets),
             Write(u, [msg |-> "vif",
                       vif |-> CniResult(Vif(Event(u).uid, TRUE, subnets), order)])
      PROVE  PodInv(u)'
  <2> DEFINE r == CniResult(Vif(Event(u).uid, TRUE, subnets), order)
  <2>1. r \in Results /\ r.port = Event(u).uid
    BY <1>1, ResultTypes DEF Objects
  <2>2. out'[u] = <<[msg |-> "vif", vif |-> r]>>
    BY <1>3, <1>5
  <2> HIDE DEF r
  <2>3. ASSUME u \notin mixed PROVE Connected(u)' /\ Printed(u)' /\ cmd'[u] = "ADD"
    <3>1. Plugged(u) /\ Ready(u) /\ Event(u).uid = u /\ cmd[u] = "ADD"
      BY <1>1, <2>3 DEF PodInv, Progress
    <3>2. WasActive(u)'
      BY <1>1, <3>1 DEF Ready, Event, WasActive, apiVars
    <3>3. /\ Len(out'[u]) = 1 /\ out'[u][1].msg = "vif" /\ out'[u][1].vif.port = u
          /\ DOMAIN out'[u] = {1}
      BY <2>1, <2>2, <3>1
    <3>4. Plugged(u)'
      BY <1>2, <3>1 DEF Plugged, hostVars, apiVars, VifSubnets, FixedIps, RequestedIps
    <3> QED
      BY <1>2, <3>1, <3>2, <3>3, <3>4 DEF Connected, Plugged, Printed
  <2> QED
    BY <1>1, <1>2, <2>3 DEF PodInv, AtWork, Silent, Own, Progress, Working, Done
<1> QED
  BY <1>4, <1>5 DEF Answer, Answers, Vif

LEMMA ExceptedStep ==
    ASSUME IInv, NEW u \in Uids, pc[u] \notin {"off", "exit"}, Ending(u)
    PROVE  PodInv(u)'
<1>1. /\ TypeOK /\ PodInv(u) /\ result[u] = "none" /\ out[u] = <<>>
  BY DEF IInv, PodInv, Silent
<1>2. /\ result' = result /\ vif' = vif /\ mixed' = mixed /\ pc'[u] = "exit"
      /\ out'[u] = <<[msg |-> "exception"]>>
  BY <1>1 DEF TypeOK, Ending, Excepted, Goes, Write
<1>3. Excepting(u)'
  BY <1>2 DEF Excepting
<1> QED
  BY <1>1, <1>2, <1>3 DEF PodInv, AtWork, Silent, Own, Progress, Printed, Working

LEMMA ExitStep ==
    ASSUME IInv, NEW u \in Uids, UNCHANGED apiVars, Exit(u) \/ Alarm(u)
    PROVE  PodInv(u)'
<1>1. TypeOK /\ PodInv(u)
  BY DEF IInv
<1>2. pc'[u] = "off" /\ vif'[u] = 0 /\ mixed' = mixed
  BY <1>1 DEF TypeOK, Exit, Alarm, Goes
<1>3. CASE Alarm(u)
  <2>1. result'[u] = "failed" /\ cmd' = cmd /\ UNCHANGED hostVars /\ UNCHANGED apiVars
    BY <1>1, <1>3 DEF TypeOK, Alarm
  <2>2. out'[u] = Append(out[u], [msg |-> "timeout"]) /\ out[u] \in Seq(Documents)
    BY <1>1, <1>3 DEF TypeOK, Alarm, Write
  <2>3. \A i \in DOMAIN out'[u] : out'[u][i].msg = "vif" =>
           i \in DOMAIN out[u] /\ out'[u][i] = out[u][i]
    BY <2>2
  <2>4. Printed(u) => Printed(u)'
    BY <2>1, <2>3 DEF Printed, Plugged, hostVars, apiVars, VifSubnets, FixedIps,
                      RequestedIps
  <2> QED
    BY <1>1, <1>2, <2>1, <2>4 DEF PodInv, AtWork, Silent, Own, Progress, Working
<1>4. CASE Exit(u)
  <2>1. /\ pc[u] = "exit" /\ cmd' = cmd /\ out' = out /\ UNCHANGED hostVars
        /\ result'[u] = "ok" => ~Excepting(u)
    BY <1>1, <1>4 DEF TypeOK, Exit, Excepting
  <2>2. (Done(u) => Done(u)') /\ (Printed(u) => Printed(u)')
    BY <2>1 DEF Done, Connected, WasActive, Printed, Plugged, hostVars, apiVars,
                VifSubnets, FixedIps, RequestedIps
  <2> QED
    BY <1>1, <1>2, <2>1, <2>2 DEF PodInv, AtWork, Silent, Own, Progress, Working
<1> QED
  BY <1>3, <1>4

-----------------------------------------------------------------------------
(* The theorems.                                                            *)

LEMMA OwnStep ==
    ASSUME IInv, NEW u \in Uids, subnets' = subnets,
           \/ \E c \in {"ADD", "DEL"} : Command(u, c)
           \/ StopSandbox(u) \/ Process(u) \/ StreamEnds(u) \/ Raises(u) \/ Alarm(u)
    PROVE  PodInv(u)'
<1>1. CASE (\E c \in {"ADD", "DEL"} : Command(u, c)) \/ StopSandbox(u)
  BY <1>1, CommandStep
<1>2. CASE Process(u)
  <2>1. UNCHANGED apiVars /\ log' = log
    BY <1>2 DEF Process, apiVars
  <2>2. CASE Handler(u)
    BY <2>1, <2>2, WatchStep, BeginStep, LaterStep, PlugStep, AddressStep, DetachStep
       DEF Handler
  <2>3. CASE Answer(u) \/ Exit(u)
    BY <2>1, <2>3, AnswerStep, ExitStep
  <2>4. CASE DeviceFails(u) \/ RouteFails(u)
    BY <2>4, Endings, ExceptedStep
  <2> QED
    BY <1>2, <2>2, <2>3, <2>4 DEF Process
<1>3. CASE StreamEnds(u)
  BY <1>3, WatchStep
<1>4. CASE Raises(u)
  BY <1>4, Endings, ExceptedStep
<1>5. CASE Alarm(u)
  BY <1>5, ExitStep DEF Alarm
<1> QED
  BY <1>1, <1>2, <1>3, <1>4, <1>5

LEMMA Step == ASSUME IInv, [Next]_vars PROVE IInv'
<1>1. TypeOK' /\ LogGrows /\ subnets' = subnets
  BY StepTypes DEF IInv, PodInv
<1>2. ASSUME NEW w \in Uids, Left(w) PROVE PodInv(w)'
  BY <1>1, <1>2, Frame DEF IInv
<1>3. CASE PodCreated \/ VifAnnotated \/ PodDeleted
  <2>1. UNCHANGED <<procVars, hostVars, mixed>>
    BY <1>3, ApiTypes DEF IInv
  <2>2. \A w \in Uids : Left(w)
    BY <2>1 DEF Left, procVars, hostVars
  <2> QED
    BY <1>1, <1>2, <2>2 DEF IInv
<1>4. ASSUME NEW u \in Uids,
             \/ \E c \in {"ADD", "DEL"} : Command(u, c)
             \/ StopSandbox(u) \/ Process(u) \/ StreamEnds(u) \/ Raises(u) \/ Alarm(u)
      PROVE  IInv'
  <2>1. PodInv(u)'
    BY <1>1, <1>4, OwnStep
  <2>2. \A w \in Uids \ {u} : Left(w)
    BY <1>4, OtherLeft
  <2> QED
    BY <1>1, <1>2, <2>1, <2>2 DEF IInv
<1>5. CASE UNCHANGED vars
  <2>1. \A w \in Uids : Left(w)
    BY <1>5 DEF Left, vars, procVars, hostVars
  <2> QED
    BY <1>1, <1>2, <2>1 DEF IInv
<1> QED
  BY <1>3, <1>4, <1>5 DEF Next

LEMMA Start == Init => IInv
<1> SUFFICES ASSUME Init PROVE IInv
  OBVIOUS
<1>1. TypeOK
  BY BoundAssumption DEF Init, TypeOK, NoDevice
<1>2. \A u \in Uids : PodInv(u)
  BY DEF Init, PodInv, AtWork, Silent, Own, Progress, Printed, Working
<1> QED
  BY <1>1, <1>2 DEF IInv

\* The inductive invariant: what a process has done at each place of its run.
THEOREM Invariant == Spec => []IInv
<1>1. Init => IInv
  BY Start
<1>2. IInv /\ [Next]_vars => IInv'
  BY Step
<1> QED
  BY <1>1, <1>2, PTL DEF Spec

\* Every object a process looks at is one the API server had, and every result
\* it writes is well-formed.
THEOREM TypeCorrect == Spec => []TypeOK
<1>1. IInv => TypeOK
  BY DEF IInv
<1> QED
  BY <1>1, Invariant, PTL

\* An ADD that ends well has plugged the pod's own port, which has become
\* active; a DEL that ends well has unplugged it.
THEOREM OkIsDone == Spec => []OkMeansDone
<1>1. IInv => OkMeansDone
  BY DEF IInv, PodInv, Progress, Done, OkMeansDone
<1> QED
  BY <1>1, Invariant, PTL

-----------------------------------------------------------------------------
(* The printed result.                                                      *)

\* A set of positions that is not empty has a last one.
LEMMA LastPosition ==
    ASSUME NEW n \in Nat, NEW T \in SUBSET (1..n), T # {}
    PROVE  \E i \in T : \A j \in T : j <= i
<1> DEFINE Less == {p \in Nat \X Nat : p[1] < p[2]}
           Gaps == {n - i : i \in T}
<1>1. IsWellFoundedOn(Less, Nat)
  BY NatLessThanWellFounded DEF OpToRel
<1>2. \A i \in T : i \in Nat /\ n - i \in Nat
  OBVIOUS
<1>3. \A x, y \in Nat : <<x, y>> \in Less <=> x < y
  OBVIOUS
<1> HIDE DEF Less
<1>4. Gaps # {} /\ \A d \in Gaps : d \in Nat
  BY <1>2
<1>5. PICK d \in Gaps : \A e \in Gaps : <<e, d>> \notin Less
  BY <1>1, <1>4, WFMin
<1>6. PICK i \in T : d = n - i
  BY <1>5
<1>7. \A j \in T : ~(n - j < n - i)
  BY <1>2, <1>3, <1>5, <1>6
<1> QED
  BY <1>2, <1>7

\* An order visits every member.
LEMMA OrderOnto ==
    ASSUME NEW S, IsFiniteSet(S), NEW order \in Orders(S)
    PROVE  /\ Cardinality(S) \in Nat /\ DOMAIN order = 1..Cardinality(S)
           /\ \A i \in DOMAIN order : order[i] \in S
           /\ \A s \in S : \E i \in DOMAIN order : order[i] = s
<1>1. Cardinality(S) \in Nat
  BY FS_CardinalityType
<1>2. Cardinality(1..Cardinality(S)) = Cardinality(S)
  BY <1>1, FS_Interval
<1>3. order \in Surjection(1..Cardinality(S), S)
  BY <1>2, FS_Injection DEF Orders
<1> QED
  BY <1>1, <1>3 DEF Surjection

\* What is written last is one of those that are written, if there is one.
LEMMA LastOfOne ==
    ASSUME NEW S, IsFiniteSet(S), NEW order \in Orders(S), NEW T
    PROVE  IF S \cap T = {} THEN LastOf(order, T) = 0
                            ELSE LastOf(order, T) \in S \cap T
<1> DEFINE At == {i \in DOMAIN order : order[i] \in T}
<1>1. /\ Cardinality(S) \in Nat /\ At \in SUBSET (1..Cardinality(S))
      /\ \A i \in DOMAIN order : order[i] \in S
      /\ \A s \in S : \E i \in DOMAIN order : order[i] = s
  BY OrderOnto
<1>2. CASE S \cap T = {}
  BY <1>1, <1>2 DEF LastOf
<1>3. CASE S \cap T # {}
  <2>1. At # {}
    BY <1>1, <1>3
  <2>2. PICK i \in At : \A j \in At : j <= i
    BY <1>1, <2>1, LastPosition
  <2> QED
    BY <1>1, <1>3, <2>2 DEF LastOf
<1> QED
  BY <1>2, <1>3

\* Of two sets with the same members among those written, it is the same.
LEMMA LastOfSame ==
    ASSUME NEW S, IsFiniteSet(S), NEW order \in Orders(S), NEW T, NEW U,
           S \cap T = S \cap U
    PROVE  LastOf(order, T) = LastOf(order, U)
<1>1. \A i \in DOMAIN order : order[i] \in T <=> order[i] \in U
  BY OrderOnto
<1> QED
  BY <1>1 DEF LastOf

\* What a result of the subnets `of' says.
Sound(r, of) ==
    \A v \in Versions :
        LET asked == {s \in of : Version(s) = v}
        IN  /\ IF asked = {} THEN r.ip[v] = 0 ELSE r.ip[v] \in asked
            /\ r.gateway[v] = r.ip[v]

LEMMA AnswerSound ==
    ASSUME TypeOK, NEW port, HasGateways(Vif(port, TRUE, subnets)),
           NEW order \in Orders(Vif(port, TRUE, subnets).subnets)
    PROVE  Sound(CniResult(Vif(port, TRUE, subnets), order), subnets)
<1> DEFINE r == CniResult(Vif(port, TRUE, subnets), order)
<1>1. /\ subnets \in SUBSET SubnetIds /\ IsFiniteSet(subnets)
      /\ order \in Orders(subnets) /\ subnets \subseteq Gateways
  BY SubnetAssumption, MappingAssumption
     DEF TypeOK, Vif, VifSubnets, FixedIps, RequestedIps, HasGateways
<1> SUFFICES ASSUME NEW v \in Versions
             PROVE  LET asked == {s \in subnets : Version(s) = v}
                    IN  /\ IF asked = {} THEN r.ip[v] = 0 ELSE r.ip[v] \in asked
                        /\ r.gateway[v] = r.ip[v]
  BY DEF Sound
<1> DEFINE asked == {s \in subnets : Version(s) = v}
           of    == {s \in SubnetIds : Version(s) = v}
           gw    == {s \in Gateways : Version(s) = v}
<1>2. r.ip[v] = LastOf(order, of) /\ r.gateway[v] = LastOf(order, gw)
  BY DEF CniResult
<1>3. subnets \cap of = asked /\ subnets \cap gw = asked
  BY <1>1
<1> HIDE DEF r, asked, of, gw
<1>4. IF asked = {} THEN r.ip[v] = 0 ELSE r.ip[v] \in asked
  BY <1>1, <1>2, <1>3, LastOfOne
<1>5. r.gateway[v] = r.ip[v]
  BY <1>1, <1>2, <1>3, LastOfSame
<1> QED
  BY <1>4, <1>5 DEF r, asked

\* Every document with a VIF is an answer.
AllSound == \A u \in Uids : \A i \in DOMAIN out[u] :
                out[u][i].msg = "vif" => Sound(out[u][i].vif, subnets)

\* The documents a step writes.
LEMMA OutMoves ==
    ASSUME TypeOK, [Next]_vars, NEW u \in Uids
    PROVE  \/ out'[u] = out[u] \/ out'[u] = <<>>
           \/ \E d : /\ out'[u] = Append(out[u], d)
                     /\ d.msg = "vif" => Sound(d.vif, subnets)
<1>1. ASSUME NEW w \in Uids, NEW d, Write(w, d), d.msg = "vif" => Sound(d.vif, subnets)
      PROVE  out'[u] = out[u] \/ out'[u] = Append(out[u], d)
  BY <1>1 DEF TypeOK, Write
<1>2. ASSUME NEW w \in Uids, Answer(w)
      PROVE  \E d : Write(w, d) /\ (d.msg = "vif" => Sound(d.vif, subnets))
  <2> DEFINE v == Vif(Event(w).uid, TRUE, subnets)
  <2>1. PICK d \in Answers(v) : Write(w, d)
    BY <1>2 DEF Answer
  <2>2. ASSUME HasGateways(v), NEW order \in Orders(v.subnets)
        PROVE  Sound(CniResult(v, order), subnets)
    BY <2>2, AnswerSound
  <2>3. d.msg = "vif" => Sound(d.vif, subnets)
    <3> HIDE DEF v
    <3>1. CASE HasGateways(v)
      <4>1. PICK order \in Orders(v.subnets) : d = [msg |-> "vif", vif |-> CniResult(v, order)]
        BY <2>1, <3>1 DEF Answers
      <4>2. d.vif = CniResult(v, order)
        BY <4>1
      <4> QED
        BY <2>2, <3>1, <4>2
    <3>2. CASE ~HasGateways(v)
      BY <2>1, <3>2 DEF Answers
    <3> QED
      BY <3>1, <3>2
  <2> QED
    BY <2>1, <2>3
<1>3. ASSUME NEW w \in Uids, Excepted(w) \/ Alarm(w)
      PROVE  \E d : Write(w, d) /\ (d.msg = "vif" => Sound(d.vif, subnets))
  BY <1>3 DEF Excepted, Alarm
<1>4. ASSUME NEW w \in Uids, NEW c, Command(w, c)
      PROVE  out'[u] = out[u] \/ out'[u] = <<>>
  BY <1>4 DEF TypeOK, Command
<1>5. ASSUME NEW w \in Uids,
             StopSandbox(w) \/ Handler(w) \/ Exit(w) \/ StreamEnds(w)
      PROVE  out' = out
  BY <1>5 DEF StopSandbox, Handler, Exit, StreamEnds, procVars
<1>6. ASSUME PodCreated \/ VifAnnotated \/ PodDeleted \/ UNCHANGED vars
      PROVE  out' = out
  BY <1>6 DEF PodCreated, VifAnnotated, PodDeleted, procVars, vars
<1> QED
  BY <1>1, <1>2, <1>3, <1>4, <1>5, <1>6 DEF Next, Process, DeviceFails, RouteFails, Raises

\* What an ADD prints is what it has plugged: the pod's own port, an address in
\* its namespace for each IP version that was asked for, and the gateway of that
\* address's subnet (AddHandler.on_vif, _configure_l3, CNIRunner._write_vif).
THEOREM ResultsArePlugged == Spec => []ResultIsPlugged
<1>1. Init => AllSound
  BY DEF Init, AllSound
<1>2. IInv /\ AllSound /\ [Next]_vars => AllSound'
  <2> SUFFICES ASSUME IInv, AllSound, [Next]_vars, NEW u \in Uids,
                      NEW i \in DOMAIN out'[u], out'[u][i].msg = "vif"
               PROVE  Sound(out'[u][i].vif, subnets)
    BY StepTypes DEF AllSound, IInv, PodInv
  <2>1. TypeOK
    BY DEF IInv
  <2>2. \/ out'[u] = out[u] \/ out'[u] = <<>>
        \/ \E d : /\ out'[u] = Append(out[u], d)
                  /\ d.msg = "vif" => Sound(d.vif, subnets)
    BY <2>1, OutMoves
  <2>3. CASE out'[u] = out[u]
    BY <2>3 DEF AllSound
  <2>4. CASE out'[u] = <<>>
    BY <2>4
  <2>5. CASE \E d : /\ out'[u] = Append(out[u], d)
                    /\ d.msg = "vif" => Sound(d.vif, subnets)
    <3>0. PICK d : /\ out'[u] = Append(out[u], d)
                   /\ d.msg = "vif" => Sound(d.vif, subnets)
      BY <2>5
    <3>1. (i \in DOMAIN out[u] /\ out'[u][i] = out[u][i]) \/ out'[u][i] = d
      BY <2>1, <3>0 DEF TypeOK
    <3> QED
      BY <3>0, <3>1 DEF AllSound
  <2> QED
    BY <2>2, <2>3, <2>4, <2>5
<1>3. IInv /\ AllSound => ResultIsPlugged
  <2> SUFFICES ASSUME IInv, AllSound, NEW u \in Uids \ mixed,
                      NEW i \in DOMAIN out[u], out[u][i].msg = "vif"
               PROVE  /\ out[u][i].vif.port = netns[u].port
                      /\ \A v \in Versions :
                            LET asked == {s \in subnets : Version(s) = v}
                                ip    == out[u][i].vif.ip[v]
                            IN  /\ IF asked = {} THEN ip = 0
                                                 ELSE ip \in asked \cap netns[u].addresses
                                /\ out[u][i].vif.gateway[v] = ip
    BY DEF ResultIsPlugged
  <2>1. out[u][i].vif.port = u /\ netns[u].port = u /\ netns[u].addresses = subnets
    <3>1. Printed(u)
      BY DEF IInv, PodInv, Progress
    <3> QED
      <4>1. VifSubnets(FixedIps(subnets), subnets) = subnets
        BY DEF VifSubnets, FixedIps, RequestedIps
      <4>2. out[u][i].vif.port = u /\ Plugged(u)
        BY <3>1 DEF Printed
      <4> QED
        BY <4>1, <4>2 DEF Plugged
  <2>2. Sound(out[u][i].vif, subnets)
    BY DEF AllSound
  <2> QED
    BY <2>1, <2>2 DEF Sound
<1> QED
  BY <1>1, <1>2, <1>3, Invariant, PTL DEF Spec
=============================================================================
