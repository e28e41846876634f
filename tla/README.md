# Kuryr-Kubernetes in TLA+

Kuryr-Kubernetes gives Kubernetes pods Neutron ports and Kubernetes services
Neutron load balancers. This directory models the controller of
`src/kuryr_kubernetes`, the concurrency it is built on and the two objects it
keeps in step with Neutron, pods and services, with the drivers that do so, and
the CNI driver that runs beside it on each node. TLC checks the models on small
instances and TLAPS proves theorems about them for every instance.

1. [The system](#1-the-system): components, their state, their hazards
2. [Modules](#2-modules): what is modelled, and how it corresponds to the code
3. [Runs](#3-runs): what is checked, bounds, fairness
4. [Theorems](#4-theorems): what is proved, from what, and how
5. [Where the code differs from its documentation](#5-where-the-code-differs-from-its-documentation)
6. [Limits](#6-limits): assumptions, abstractions, what is not modelled
7. [Plan](#7-plan): what comes next

## 1. The system

                K8s API server                                Neutron
           watch | ^ PATCH annotations                          ^
                 v |                                            |
      Watcher --> Async --> Dispatcher --> LogExceptions/Retry --> VIFHandler -> VIF driver
     one loop     one queue and             one handler            LBaaSSpecHandler
     per path     thread per object         after the other        LoadBalancerHandler -> LBaaS driver

      CNI driver (one process per ADD or DEL): Watcher -> Dispatcher -> AddHandler | DelHandler

The controller is one process of eventlet green threads. It has no storage of
its own: what it has done is in annotations on the K8s objects. Components talk
by calls (watcher to pipeline to handler to driver), by HTTP requests (K8s
API, Neutron), and by annotations: LBaaSSpecHandler tells LoadBalancerHandler
what to do by annotating the endpoints, the controller tells the CNI driver by
annotating the pod, and Neutron is asked whether the CNI driver has plugged.

| Component | State | Operations | Hard behaviour | Correct when |
|---|---|---|---|---|
| Watcher (`watcher.py`) | `_resources`, `_watching`, `_idle`, `_running` | add, remove, start, stop, the loops | stop and remove while a loop is in its handler, and start again before it returns; a kill of a thread that has not begun; a watch that fails | one loop per path, listed paths are watched, handlers are never killed, stopped loops end |
| Async (`handlers/asynchronous.py`) | `_queues`; a thread and a bounded queue per object | `__call__`, `_run`, `_done` | a thread times out while its object's next event arrives; full queues block the watcher; the pool is exhausted; events are skipped | events of an object are handled one at a time, in order, and the newest is never forgotten |
| Event pipeline (`handlers/dispatch.py`, `retry.py`, `logging.py`, `controller/handlers/pipeline.py`) | registry; attempt and deadline of Retry | register, dispatch, retry, swallow | failing handlers, backoff near the deadline | every handler is called, and an event occupies its thread for a limited time |
| VIFHandler with GenericPodVIFDriver (`controller/handlers/vif.py`, `drivers/generic_vif.py`, `k8s_client.py`) | the VIF annotation of the pod, the port in Neutron | on_present (request, activate), on_deleted (release), annotate | the pod changes, dies and is created again between any two requests; conflicts; restarts; lost watch events | a pod keeps its one port, active means up, ports of deleted pods are deleted |
| LBaaSSpecHandler (`controller/handlers/lbaas.py`) | the spec annotated on service and endpoints | on_present | endpoints come late; the service changes while it is handled | the endpoints have the spec of the service |
| LoadBalancerHandler (`controller/handlers/lbaas.py`) | the state annotated on the endpoints; load balancer, listeners, pools and members in Neutron | on_present, on_deleted, seven sync loops | pods, ports and annotations change independently; a loop fails in the middle; the annotation conflicts | Neutron has what the service asks for, and all it has is annotated |
| NestedVlanPodVIFDriver (`drivers/nested_vlan_vif.py`) | ports, subports of trunks, pool of VLAN ids | request_vif, release_vif | threads and other controllers race for VLAN ids; retry after a conflict; partial failure | a VIF's subport is on its trunk, ids are used once and come back |
| LBaaSv2Driver (`drivers/lbaasv2.py`) | two timers of a call | ensure_*, release_* of four kinds of object | busy load balancers, refused requests, bogus pools, objects that come or go between two requests | a call has ensured or released one object, or failed, in limited time |
| CNI driver (`cni/main.py`, `api.py`, `handlers.py`, `binding/`) | the VIF it has plugged; devices and bridge of the host | ADD, DEL | waits for the annotation, then for `active`, over ending streams and under an alarm; overlapping commands, failing host calls, names used again | what it reports as done is done, answered once |
| Conversion (`os_vif_util.py`) | none | port request, VIF, printed result | several subnets, subnets without a gateway, addresses that were not asked for, no order | what is printed is what was plugged |
| Default project, subnet and security group drivers, clients, options | set once | straight-line calls | little | |

`PROJECT.json` lists the hazards line by line, each with the properties that
are there to catch it.

## 2. Modules

`X_proofs` holds the proofs about `X`; `MCX` with its `.cfg` files instantiates `X`
for TLC. Operators keep the names of the code where they can. `Name_What`
(for example `GetTimeout_NotEmpty`) is a mutant: `Name` with a bug that could
have been written. No specification uses it; it shows that a property can fail.

| Module | Models | Uses |
|---|---|---|
| `SerialMailbox` | what Async promises: per object, events are handled one at a time, in order; older ones may be skipped | |
| `AsyncHandler` | `Async`, implements `SerialMailbox` | `SerialMailbox` by refinement |
| `Watcher` | `Watcher` with a thread group | |
| `Pipeline` | `EventPipeline`, `Dispatcher`, `LogExceptions`, `Retry` for one event | |
| `PodVIF` | one pod name: `VIFHandler`, `GenericPodVIFDriver`, `K8sClient.annotate`; the API, scheduler, kubelet, CNI driver and Neutron around them | the mailbox of `SerialMailbox` |
| `NestedVlan` | `NestedVlanPodVIFDriver` called for several pods at once | |
| `ServiceObjects` | a service and its endpoints in the API, users and endpoints controller | |
| `LBaaSSpec` | `LBaaSSpecHandler` | `ServiceObjects` |
| `LoadBalancer` | `LoadBalancerHandler`, the LBaaS driver as it sees it | `ServiceObjects` |
| `Services` | both handlers, failures and restarts together | `LBaaSSpec`, `LoadBalancer` |
| `LBaaSObjects` | a load balancer, its listener, pool and member; the driver's calls | |
| `LBaaSCalls` | what the handlers take the LBaaS driver for: atomic calls | `LBaaSObjects` |
| `LBaaSv2` | `LBaaSv2Driver`, request by request, implements `LBaaSCalls` | `LBaaSObjects`, `LBaaSCalls` by refinement |
| `VifTranslation` | the conversions from subnets to port, VIF and CNI result | |
| `CNI` | the processes of ADD and DEL, with the binding of an OVS port | `VifTranslation` |

### Steps

Green threads only switch where the code waits: in a request, a queue
operation, a sleep. The code between two such points is one action. A request
to the API or Neutron is an action because others may act before and after
it; what an exception skips, the action skips.

**AsyncHandler.** `queues` is the registry `_queues` (the thread that drains
the object's queue), `buf` the queues, `pc`, `event` the threads in `_run`:
`Get` and `GetTimeout` are the two ends of `queue.get(timeout=...)`, `Drain`
the loop that skips to the newest event, `Handle` the call of the handler,
`Finish` its return. A call finds no queue (`CallNew`), a queue with room
(`CallQueued`), a full one (`CallBlocked`, then `Unblock`), or no place in the
pool: then `add_thread` runs the body in the caller (`CallExhausted`,
`InlineReturns`), and the events of the new queue are nobody's until then.
`Stop` and `Kill` are the service's thread group stopping.

**Watcher.** `watching`, `idle`, `resources`, `running` are the fields of the
class; `pc` and `loop` say what the green threads do. `stop()` walks a
snapshot of `_watching` and may be overtaken by loops that end (`todo`,
`StopNext`). Killing a thread that has not begun never runs its `finally`, so
the path stays in `_watching` although nothing watches it (`broken =
"unborn"`); a watch that fails is `broken = "failed"`.

**Pipeline.** `Call`, `Returns`, `Raises`, `NotReady` are the ends of a
handler's call, `Sleep` and `GiveUp` the two results of `Retry._sleep`. Time
is in whole seconds, `Backoff` is the random interval with its cap and floor.

**PodVIF.** `pod` is the object in the API with its `resourceVersion`, and
`inbox` its watch events that are not handled. `pc` is the handler's next
request: `request` (create_port), `show` (show_port), `patch`, `get` (after a
409), `release` (delete_port). `Take(k)` takes the k-th waiting event: Async
is used as the mailbox that it is proved to implement. `Reconnect` is a lost
watch connection (objects are listed again, DELETED events in between are
gone), `Restart` a new controller process.

**NestedVlan.** `pc[p]` is the next request of the pod's thread; `port[p]` and
`vlan[p]` its variables, then the VIF. `free` is the pool of the segmentation
driver. `AddConflict` is a 409 from the trunk; the retry's request has a list
where the port's id belongs, so `AddAgain` is a refusal.

**Services.** `svc` and `ep` are the objects with their annotations (`spec`,
`state`), `svcInbox`, `epInbox` their events, `svcNewer`, `epNewer` say whether
the `resourceVersion` a handler works with is outdated. `specPc` goes through
the two requests of `_set_lbaas_spec`, `lbPc` through the loops of
`_sync_lbaas_members`: members, pools and listeners are removed, the load
balancer got or released, listeners, pools and members added, in the order of
the code. Each loop is a step, and `Partly` what a failing one leaves: any part
of what it meant to do. `on_deleted` calls the same function with an empty spec,
so the lookup of a port name fails for endpoints that were deleted and still show
a ready pod (`UnknownTargets`): the KeyError ends the event in the last loop
(`PortUnknown`), when everything has been released. `lapsed` and `specLapsed` record that an event was
dropped before its end, by an exception or because Retry gave up; the KeyError of
a deleted event is not among them, as there is nothing left to do. A pool is
named by the listener it was created for, an empty annotation is a missing one.

**LBaaSv2.** `neutron` has the object of each kind that exists, each part of the
one before it, `bogus` the pools that belong to no listener. `known` is what the
handler works with and `saved` what it annotated. `pc` is the driver's next
request: `create` and `find` are `_ensure`, `delete` is `_release`, `list` and
`clean` are `_cleanup_bogus_pool`, `show` is the request of
`_wait_for_provisioning`, `wait` and `pause` are the sleeps of its timer and of
the timer of the call. `clock` counts from the beginning of the call,
`deadline` is the inner timer's: it has what the outer one had left when it last
yielded (`Remaining`). `Sleep` may take any time up to what the interval may have
grown to; that a timer ends means that no time is left. The kind of the object
(`call.kind`) decides what a busy load balancer (refused, or a bogus pool), an
existing object and a missing parent lead to. `Fails` is a request that raises
anything else, with or without its effect, or a restart.

The refinement (`CallsAtomic`) maps `real` to `neutron` and `dying` to the status
`DELETING`: the request that creates or deletes, or that finds what exists, is
the one step of the call, all others stutter, and bogus pools do not show.

**CNI.** `log` is the object of the pod's name as the API server had it, version
by version, over pods that follow each other; `next[u]` is the version that the
process of pod `u` handles or waits for. A process goes through `connect`
(`K8sClient.watch`), `watch`, then `device`, `attach` and `address`
(`connect()` of `binding/base.py`), back to `watch` until the VIF is active,
`answer` and `exit`; a DEL through `detach`. `netns` and `bridge` are the host's.
A document (`out`) is the result, an exception or the alarm's. The exit status of
a process is what `run()` of `main.py` returns or `_timeout` exits with. `mixed`
remembers pods whose process met the VIF of another pod of the name.

**VifTranslation.** A subnet stands for its network and for a port's address in
it. `FixedIps` adds the subnets of which Neutron gives every port an address;
`VifSubnets` drops them again; `CniResult` goes through the subnets in any order,
since they come out of a dict, and a later one of the same IP version writes over
the earlier one. For a Neutron subnet without `gateway_ip` the attribute `gateway`
of the os-vif object is not set (`os_vif_util.py:71`), and reading it raises an
exception: `_configure_l3` reads it after the device and the addresses are there
(`RouteFails`), `_write_vif` would too (`Answers`), so only a VIF that `HasGateways`
gets through. A second default route of one IP version may be refused by Linux
(`SharedVersion`); both outcomes are in the model. Which subnets a pod has is
the constant `Mappings`: any sets a `PodSubnetsDriver` may return; the default
driver returns sets of one.

## 3. Runs

| Run | Instance | Distinct states | Shows |
|---|---|---|---|
| `async` | 2 watchers, 3 objects, 2 places, queues of 1, 2 events each | 85 thousand | registry, order and newest event kept, refinement of `SerialMailbox`; events handled, watchers unblocked |
| `watcher` | 3 paths, 3 threads | 27 thousand | one loop per path, books match, handlers not interrupted, listed paths watched, loops end |
| `pipeline` | 3 handlers, 2 kinds, timeout 7, interval 2, calls of 0 to 2 s | 62 thousand | backoff, last attempt, all handlers called, thread returns |
| `podvif` | 2 pods on one name, 4 ports, 2 of: a touch, a restart, a lost connection, a fault | 366 thousand | stable annotation, active means up, own port exists, no orphan; a scheduled pod gets an active VIF, a deleted one's ports go |
| `nested_vlan` | 3 pods on 2 machines, 3 VLAN ids, 4 ports, 2 subports of others, a fault | 224 thousand | VIFs on their trunk, no conflicts among threads, nothing lost |
| `services` | 2 pods, 2 ports, a change of ports or pods, a waiting event, a fault or restart | 360 thousand | lookups succeed or come after the last release, annotated state is what exists; Neutron converges, a deleted service is reclaimed |
| `lbaasv2` | 4 kinds, 5 ids each, time limit 4, requests of 0 or 1 s, another user, a fault | 210 thousand | no request too late, few bogus pools, calls atomic, calls end |
| `cni` | 2 pods on one name, subnets of both IP versions, two of one, or one without gateway, 3 commands, a trouble | 835 thousand | what ends well is done, what is printed is plugged, an active VIF is noticed |
| `async_pool_exhausted`, `podvif_reuse_leak`, `podvif_port_deleted`, `services_spec` | smallest that show it | | section 5 |

### Bounds

* Async: three objects and two places are the least that exhaust the pool while
  a thread is reused; two objects share a watcher, so that one blocks the
  other. A queue of one is full with the second event, and a blocked event
  lets `Drain` find another. The safety properties are proved for any size.
* Watcher: no bound on add, remove, start and stop; three threads for three
  paths suffice because `OneLoopPerPath` is proved, and an add finds a thread
  as long as it holds.
* Pipeline: a timeout that is no multiple of the interval meets every case of
  the cap and the floor; the longest event is shorter than `MaxNow`.
* PodVIF: two pods on the name are the least for reuse, four ports let each
  have its port and one be requested in vain. Troubles (modifications by others,
  restarts, lost connections, failing requests) count together: two let each
  meet each other, in every order.
* NestedVlan: two pods share a trunk and its ids, the third shares only the
  pool. Fewer ids than pods and subports of others make the pool run dry.
* Services: two ports and two pods make every set of unused or missing objects
  empty, partial or full. A waiting event and the one being handled are enough
  for one that outdates it; that events are skipped is Async's, and checked
  there. The service and its endpoints are created once: see section 6. `IdsLeft`:
  a listener is only created while `Ids` has an id for it that nobody knows.
* LBaaSv2: the limit of 4 lets the first sleep of a timer end, the second be cut
  short and the third not begin. Five ids keep an object, its predecessors that
  are known or annotated and a bogus pool apart. One act of another user falls
  between any two requests; types, `NoLateRequest`, `CallsAtomic` and
  `FewBogusPools` are proved for any number.
* CNI: two pods are the least for a name that is used again, with two processes
  at once. Three commands are ADD and DEL of one pod and ADD of the next, or a
  repeated DEL. A pod has an IPv4 and an IPv6 subnet with gateways, for which an
  ADD can always succeed, a second IPv4 one besides, so that the order matters, or
  one without a gateway, with which every ADD fails; in each case Neutron adds an
  IPv6 address unasked. `OkMeansDone` and `ResultIsPlugged` are
  proved for any number. `CHECK_DEADLOCK FALSE`: when the pods of the name are gone and all
  commands have run, nothing is left to do.

### Fairness

`async`: threads and watchers that can go on do, and handlers return. This
is what the eventlet hub does with runnable threads, and what `Retry`'s deadline
(proved and checked in `Pipeline`) and the clients' time limits do for handlers.
`watcher`: a `stop()` that began goes on, a spawned thread begins, a handler
returns; watch events need not come. `pipeline`: the thread of the event runs.
`podvif`: the handler's thread runs, the CNI driver plugs the VIF of a pod
that the kubelet runs, Neutron brings a plugged port up; the scheduler and the
kubelet need not act (`PodConnected` starts from a scheduled, pending pod). `services`:
the threads of the two objects run; nobody is obliged to change anything.
`lbaasv2`: the driver's thread runs; the load balancer may stay busy for ever.
`cni`: a process runs, an event it waits for is delivered and a connection that
ended is made again; no stream has to end and the alarm never has to ring.
Users, failures, restarts and lost connections are never fair.

### Properties worth a note

* `NewestEventKept` excepts events put in a queue nobody drains (`lost`), and a
  stopping service; `NothingLost` (section 5) shows the exception is needed.
* `NoOrphanPort` needs a name that is not reused and no failure. Each of the
  exceptions is a leak of the code: section 5, and `PROJECT.json`.
* `OwnPortExists` speaks of the port created for this very pod. That a pod can
  be annotated with its predecessor's port is `PodHasItsPort`, in section 5.
* `NothingLeaked` and `NothingImagined` (services) hold as long as no event was
  dropped half-way; the code has no repair for one that was (its own REVISIT
  comment, `lbaas.py:209`). `NothingLeaked` looks for each object in all the states
  that will still be handled. That all of them are in one of these states holds
  only in the first life of the endpoints: later, what an outdated event of the
  first life made can wait for its DELETED event beside what the second life has.
* `Converges` speaks of endpoints with ready pods, as the code ignores others.
* `FewBogusPools` counts: the driver waits for its own changes before the next
  request, so only somebody else's use of the load balancer, between the wait and
  the creation, makes a bogus pool, and only a request that fails while it is
  cleaned up, or a clean-up that is refused itself, lets it stay.
* `OkMeansDone` is about exit status 0, all that kubelet acts upon. It excepts
  names used again while a process of the first pod runs (`mixed`).
* `ResultIsPlugged` relates the document to the host, since they are made from
  different events: `AddHandler` plugs the VIF of the first and prints that of the
  one that is active. Every version of the document has a gateway, and
  that of the address beside it, because no VIF without one is plugged.
* `LookupsFound` says when the lookups of `_add_new_members` succeed and what is
  true when one does not: it is the lookup of a port name of deleted endpoints, and
  nothing of their state is in Neutron any more. That the KeyError is harmless
  rests on the order of the loops in `_sync_lbaas_members`.
* `OnlyOthersConflict`: ids are allocated from a shared pool before any yield,
  which is why green threads cannot take the same one, and only a second
  controller or a user can cause the conflict that the code does not survive.

## 4. Theorems

All theorems are about `Spec` of the module, for any values of the constants
that satisfy the module's assumptions (the absent value is not an id, bounds are
natural numbers, every object has a watcher, every pod a trunk, the port of a
service is a name and a number, a mapping of subnets is finite).

| Theorem | Property |
|---|---|
| `AsyncHandler_proofs`: `TypeCorrect`, `RegistryCorrect`, `QueuesGapless`, `NewestKept` | `TypeOK`, `OneThreadPerGroup`, `QueueIsTheTail`, `NewestEventKept` |
| `AsyncHandler_proofs`: `AsyncImplementsMailbox` | `MailboxSpec` |
| `PodVIF_proofs`: `TypeCorrect`, `ActiveIsUp`, `AnnotationStable` | `TypeOK`, `ActiveMeansUp`, `VifStable` |
| `PodVIF_proofs`: `OwnPortSafe`, `NoOrphan` | `OwnPortExists`, `NoOrphanPort` |
| `Watcher_proofs`: `BooksCorrect`, `OneLoop`, `ListedWatched`, `HandlersFinish` | `BooksMatch`, `OneLoopPerPath`, `ListedIsWatched`, `HandlerNotInterrupted` |
| `Pipeline_proofs`: `TypeCorrect`, `BackoffCorrect`, `AttemptsTimely` | `TypeOK`, `BackoffKept`, `NoLateAttempt` |
| `NestedVlan_proofs`: `VifStaysOnTrunk`, `ThreadsKeepApart`, `NoLeaks` | `VifOnTrunk`, `OnlyOthersConflict`, `NothingLeaked` |
| `LBaaSv2_proofs`: `RequestsTimely`, `CallsAreAtomic`, `BogusPoolsBounded` | `NoLateRequest`, `CallsAtomic`, `FewBogusPools` |
| `CNI_proofs`: `OkIsDone`, `ResultsArePlugged` | `OkMeansDone`, `ResultIsPlugged` |
| `Services_proofs`: `TypeCorrect`, `LookupsSucceed` | `TypeOK`, `LookupsFound` |
| `Services_proofs`: `NothingIsLeaked`, `NothingIsImagined` | `NothingLeaked`, `NothingImagined` |

The arguments:

* **Async.** The newest event is in one of four places (queue, thread,
  blocked watcher, inline run). That it stays there needs the contents of the
  queue, a gapless tail of the events, and the registry, which must name the one
  live thread. None of the three is inductive alone; `IndInv` is their
  conjunction with the shape of ended threads and of blocked callers. For the
  refinement the mapping shows the event that is in the handler, so starting,
  ending and reusing threads are stuttering steps.
* **PodVIF.** The argument is about versions. Whatever the handler or a waiting
  event knows under a `resourceVersion` that is still current *is* the pod
  (`Known`). So a PATCH that would be accepted now changes a pod without VIF, or
  makes its own VIF active (`Acceptable`), and the comparison after a 409
  restores just that. `VifStable` follows step by step.
* **The ports of pods** are told apart by the pod they were created for. A pod is
  annotated with a port of its own or of an earlier pod (`Origins`), and a
  DELETED event is of an earlier pod than the one there is (`Lives`): what
  `on_deleted` releases is not the living pod's own. What `on_present` releases
  was never annotated, and by then the pod has another port for good (`InHand`,
  `Spare`). For `NoOrphanPort` the DELETED event of the first pod is the last
  one of its inbox (`LastWord`), so skipping events keeps it, and the handler
  does not ignore it, because a pod that has a VIF was never on the host network
  (`HostFixed`).
* **Watcher.** `BooksMatch` lacks what a remembered dead thread means: its loop
  was killed before it began (`Remembered`). `HandlerNotInterrupted` is a property
  of steps: a thread that handles an event is not in `_idle`, and `remove` and
  `stop` kill only those that are (`OwnerSparesHandlers`, `StopSparesHandlers`).
* **Pipeline.** Arithmetic on the deadline, the cap and the floor of the
  interval.
* **NestedVlan.** A thread's subport stays if nobody else holds its port or its
  id (`Apart`), and an id that is on a trunk in the name of one of our ports is
  neither available nor anyone else's (`Owned`). That is also why ids of failed
  attempts, which are never given back, cannot be given out twice.
* **LBaaSv2.** Each step is shown to be one step of `LBaaSCalls` or none. That
  holds because what the handler knows, what it annotated and what exists are
  lines of one another (`Chained`, `Lineage`: who knows an object that exists
  knows the parent it has), and because a call's kind and its place agree
  (`CallOK`). `NoLateRequest` needs the deadline at every request (`Timely`): the
  inner timer never has more than the outer one had left.
* **Bogus pools** are counted together with one that may come: the driver is
  exposed to one only while it is about to create a pool and the load balancer has
  become busy since its own wait, which is somebody else's doing and was counted
  (`Room`). Its own deletions add none, as it deletes a listener only after the
  listener's pool: a listener it knows or annotated with its pool has no other
  (`OnePool`), listener and pool are annotated together (`Whole`), only annotated
  objects are released and a pool is ensured only for a listener without an
  annotated one (`CallPools`), and an annotated object found lost is not the one
  that Neutron has (`Remade`).
* **CNI.** The invariant says what has been plugged at each place of a process
  (`PodInv`), that the event it handles is one of its own pod or both pods are
  `mixed`, and that it has written nothing before it answers. The log only grows,
  so what it saw stays true.
* **The result of an ADD.** Every order of the subnets visits each of them
  (`OrderOnto`), so whatever IP version the pod has a subnet of is written, and
  last by one of its own (`LastOfOne`). The gateways that are written are those of
  the same subnets, as a VIF that is answered has a gateway in each, and so the last
  one is that of the last address (`LastOfSame`). Then each document that is
  written is sound (`Sound`), and none changes afterwards. That its port is in the
  namespace with the addresses is the invariant's (`Printed`). The last position is
  found by well-founded induction over the set of positions, which must be
  finite: a mapping is a dict (`MappingAssumption`).
* **Services.** Three lookups can fail. A pool's
  listener is in the state because pools go before listeners and come after them,
  also in every state that was annotated and is read back (`Orderly`). A port
  name of endpoints that are present is in the spec because events that differ are
  ignored (`Agrees`); one of deleted endpoints is not (`Unknown`), and then nothing
  of their state is left, since a pass without a spec keeps no pool and has taken
  away what it does not keep before it adds (`NothingLeft`). And when members are added every port of the spec has got its
  listener and every listener its pool (`Reached`). `TypeOK` depends on the first
  and the last: only with these lookups found are the new members members.
* **`NothingLeaked`** is an invariant about passes. What LoadBalancerHandler makes
  of an event is a function of the event and of the listeners there are: which
  members and pools are `Kept`, which ports then lack a listener, which listeners
  and members are made for them (`Gained`, `Added`). `Mirror` says that
  `lbaas_state` is that function's value at each of the seven loops. Everything in
  Neutron is in a state that is still to be handled, or was made by the pass
  (`Tracked`); a step of a pass, finished or failed in the middle, adds only what
  the pass would make (`Moves`), and once every port has its listener nothing new
  is made (`MovesGains`), so a retry from the annotated state finds what it did
  not record. Others never make a state forgotten (`OthersRemember`). At the end
  the annotated state is replaced by `lbaas`. That loses nothing, as it is the
  state the pass began with (`Fresh`: anything newer would have been a conflict),
  and of that only what was kept still exists (`Removed`).
* **`NothingImagined`** adds what a pass leaves alone (`Keeps`): what it keeps
  exists all along, and what it makes exists from then on (`Backed`). In the first
  life of the endpoints all events have their present state or none (`Real`), so a
  pass that began with an outdated event has nothing to remove.

Every module's `TypeOK` is proved, and checked by the runs of `AsyncHandler`,
`Pipeline` and `PodVIF`. So is every invariant, action property and refinement
that a passing run checks. Only model-checked are the liveness properties
(`EventsHandled`, `WatcherUnblocked`, `StopEndsLoops`, `RemoveEndsLoop`,
`AllCalled`, `PipelineReturns`, `PodConnected`, `PortsReclaimed`, `Converges`,
`Reclaimed`, `CallEnds`, `Answered`): liveness under fairness is out of the
prover's reach.

## 5. Where the code differs from its documentation

* **`NothingLost`** (`async_pool_exhausted`): when the thread group's pool is
  exhausted, `add_thread` runs the new thread's body in the caller, and `put`
  comes after it: the event waits in a queue that is no longer drained.
* **`NoOrphanOnReuse`** (`podvif_reuse_leak`): a pod is deleted and created again
  before its DELETED event is handled; Async skips to the newest event, and the
  first pod's port is never deleted.
* **`PodHasItsPort`** (`podvif_port_deleted`): a conflicting PATCH is repeated if
  the annotation is missing, even if the name belongs to another pod by now. The
  new pod gets the old one's VIF, whose port the DELETED event then deletes.
* **`SpecsAgree`** (`services_spec`): the spec is written on the endpoints
  without a `resourceVersion`. If the ports of a service change and change back
  while the first change is handled, the endpoints keep the spec of the change.

Differences the models contain and no run states:

* A loop whose watch failed is not started again (`k8s_client.py:120` has the
  TODO); `ListedIsWatched` excepts it. A loop that is killed before it began
  keeps its entry in `_watching`, and `add` does not start another.
* The retry in `_add_subport` cannot succeed: `subport` is bound again to the
  list that was sent (`nested_vlan_vif.py:140`), and the list is sent as
  `port_id`. The port, and both VLAN ids, are lost. The docstring (line 126)
  promises that the "subport addition is re-tried".
* A Neutron subnet without `gateway_ip` makes every ADD fail: `if subnet.gateway`
  (`binding/base.py:54`, `cni/api.py:125`) is not false but raises
  NotImplementedError, since the attribute was never set (`os_vif_util.py:71`,
  `tests/unit/test_os_vif_util.py:111`). The device, the port on the bridge and the
  addresses stay until DEL.
* `on_deleted` ends with a KeyError (`lbaas.py:291`) whenever the deleted endpoints
  still show a ready pod whose member is not there, as the members are taken
  out of the state first (`lbaas.py:226`) and the spec is empty. Everything has
  been released by then (`LookupsFound`), and `LogExceptions` logs it.
* Handlers that fail with anything but `ResourceNotReady` are not retried
  (`controller/handlers/pipeline.py`), and `LogExceptions` ends the event.
* `DELETED` events of the time between two watch connections are lost, and with
  them the ports and load balancers of the deleted objects.
* A subset without ready pods has no `addresses`: `_remove_unused_members` fails
  on it, and a DELETED event that shows one leaks the load balancer.
* A port of a service that changes its number, or shares its target port with
  another, gets a pool without members: `_add_new_members` knows a member by
  (ip, target port) only (`lbaas.py:288`), although
  `devref/service_support.rst:69` promises to "keep in sync with the K8s service".
* `_cleanup_bogus_pool` sends its deletions while the load balancer is in the
  state that refused the pool, and ignores that they are refused: a bogus pool
  can survive, and then the load balancer cannot be released.
* The driver waits up to 300 s for a load balancer, Retry retries up to 180 s:
  the `ResourceNotReady` of a driver that has waited its time is never retried.
* `_find_loadbalancer` does not look at the status: a load balancer that is
  being deleted is found and annotated.
* The CNI driver watches pods by name. If the name is used again while it runs,
  `AddHandler` has plugged the VIF of one pod and answers with that of the other,
  and `DelHandler` takes the new pod's port off the bridge.
* DEL of a pod that is gone waits for an event that does not come, until the
  alarm ends it; the port stays on the bridge.
* An alarm after the result was written writes a second document behind it.

## 6. Limits

Assumptions:

* Green threads switch only where the code waits, as eventlet guarantees.
* The K8s API gives every change a new `resourceVersion`, refuses a PATCH with
  an old one, and sends events of an object in order.
* Neutron refuses a subport whose VLAN id is in use on the trunk, never reuses
  ids that are known, deletes the members of a deleted pool and keeps a load
  balancer that is in use.
* The segmentation driver of kuryr-lib gives out an available id that is not in
  the set it is shown; it may drop ids of that set from its pool.

Abstractions:

* Objects of different names do not interact but through Async, the pool and the
  driver's ids, so `PodVIF` has one pod name, `Services` one service.
* Services are of type ClusterIP with one subset of endpoints and a fixed IP.
  Every port keeps its number and has a target port of its own: members are
  known by (ip, target port) only (`lbaas.py:288`), so a port that changes
  its number gets a pool that never has a member.
* `NothingImagined` and `Converges` are for the first life of the endpoints. A
  state annotated by a retried PATCH on endpoints created again under the name
  is released by the first ones' DELETED event.
* `LoadBalancer` takes a call of the LBaaS driver as one step that succeeds, or
  fails before or after it took effect. That is `LBaaSCalls`, which `LBaaSv2` is
  proved to implement for one object of each kind.
* `LBaaSv2` has one listener, pool and member, as calls for others only keep the
  load balancer busy. Time passes in requests and sleeps, not in between.
* `CNI` gives pod `u` port `u`, and a pod is annotated as `PodVIF` shows it is:
  the VIF once, then active. Only Open vSwitch VIFs are bound; hybrid bridges and
  VLAN interfaces go through the same steps. Routes, MTUs and names of devices
  are left out, but for the one that two processes of one port would share.
* Security groups, projects and names are the same for all objects.

Not modelled: the default project, subnet and security group drivers, clients and
options (no
state), the loading of drivers and plug-ins, os_vif's own plug-ins, the port
manager and the Fuxi integration (documents without code).

## 7. Plan

Done are Async, the watcher, the pipeline, pods, services, the nested driver, the
LBaaSv2 driver and the CNI driver. What is left, in this order:

1. **Theorems** that no run states: `NothingImagined` for later lives of the
   endpoints, with what the first life's DELETED event will still release.
2. **Services, second instance**: a port that changes its number, endpoints that
   are created again; the runs that show what happens.
3. **Composition** of `CNI` with `PodVIF`: the annotation by the handler itself,
   so that the wait for `active` closes the circle over Neutron.
4. **What failures leave behind**: the properties that except dropped events
   (`lapsed`, `specLapsed`, `failed`, `gaveUp`) bound what is lost but do not say how
   much; statements of the worst case, as `FewBogusPools` makes for bogus pools.
