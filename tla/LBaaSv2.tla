------------------------------- MODULE LBaaSv2 --------------------------------
(***************************************************************************)
(* LBaaSv2Driver (controller/drivers/lbaasv2.py).  A call ensures or       *)
(* releases a load balancer, listener, pool or member with requests to     *)
(* Neutron, which refuses to change a load balancer that is not ACTIVE.    *)
(* The driver waits for it, tries again, and gives up when its time is up. *)
(*                                                                         *)
(* Every request is a step.  Between two of them Neutron goes on with what *)
(* it has been asked to do, and others use or delete the objects.  Time is *)
(* counted from the beginning of the call.                                 *)
(***************************************************************************)
EXTENDS LBaaSObjects, FiniteSets

CONSTANTS Timeout,      \* _ACTIVATION_TIMEOUT
          MaxInterval,  \* max_interval
          MaxDelay,     \* bound: time a request takes
          MaxOthers,    \* bound: what others do
          MaxFaults     \* bound: failing requests and restarts

ASSUME TimeAssumption  == /\ Timeout \in Nat /\ MaxDelay \in Nat
                          /\ MaxInterval \in Nat \ {0}
ASSUME BoundAssumption == MaxOthers \in Nat /\ MaxFaults \in Nat

VARIABLES neutron,   \* the object of each kind that exists, 0 if none
          status,    \* provisioning_status of the load balancer
          bogus,     \* pools of the load balancer without a listener
          known,     \* lbaas_state of the handler that calls the driver
          saved,     \* its annotation
          call,      \* the call in progress
          pc,        \* its next request
          clock,     \* time since it began
          deadline,  \* of _wait_for_provisioning
          cleaning,  \* bogus_pool_ids
          others, faults

vars == <<neutron, status, bogus, known, saved, call, pc, clock, deadline,
          cleaning, others, faults>>

objectVars == <<neutron, status, bogus>>
callVars   == <<call, pc, clock, deadline, cleaning>>

TypeOK ==
    /\ neutron \in Chains /\ known \in Chains /\ saved \in Chains
    /\ status \in {"none", "ACTIVE", "PENDING", "DELETING"}
    /\ bogus \subseteq Ids /\ cleaning \subseteq Ids
    /\ pc \in {"idle", "show", "wait", "create", "find", "list", "clean",
               "delete", "pause"}
    /\ IF pc = "idle" THEN call = NoCall ELSE call \in Calls
    /\ clock \in Nat /\ deadline \in Nat /\ others \in Nat /\ faults \in Nat

Init ==
    /\ neutron = Empty /\ status = "none" /\ bogus = {}
    /\ known = Empty /\ saved = Empty
    /\ call = NoCall /\ pc = "idle" /\ clock = 0 /\ deadline = 0
    /\ cleaning = {} /\ others = 0 /\ faults = 0

Idle == /\ pc' = "idle" /\ call' = NoCall
        /\ clock' = 0 /\ deadline' = 0 /\ cleaning' = {}

-----------------------------------------------------------------------------
(* Neutron.                                                                 *)

\* Ids nobody remembers.
NewIds(k) == Ids \ ({neutron[k], known[k], saved[k]} \cup bogus)
NewId(k)  == CHOOSE i \in NewIds(k) : TRUE

\* What the caller knows as the parent of a new object exists.
ParentThere(k) == k # LoadBalancer => neutron[k - 1] = known[k - 1]

Busy == status # "ACTIVE"

InUse(k) == k = LoadBalancer /\ (neutron[Listener] # 0 \/ bogus # {})

MayCreate(k) == /\ ParentThere(k) /\ neutron[k] = 0
                /\ k = LoadBalancer \/ ~Busy
                /\ NewIds(k) # {}
MayDelete(k) == neutron[k] = known[k] /\ ~Busy /\ ~InUse(k)

Create(k) ==
    /\ neutron' = [neutron EXCEPT ![k] = NewId(k)]
    /\ status' = "PENDING"
    /\ UNCHANGED bogus

\* The pool of a deleted listener stays with the load balancer.
Delete(k) ==
    /\ neutron' = IF k = LoadBalancer THEN neutron ELSE Cut(neutron, k)
    /\ status'  = IF k = LoadBalancer THEN "DELETING" ELSE "PENDING"
    /\ bogus'   = IF k = Listener THEN bogus \cup ({neutron[Pool]} \ {0})
                                  ELSE bogus

Provisioned ==
    /\ status = "PENDING" /\ status' = "ACTIVE"
    /\ UNCHANGED <<neutron, bogus, known, saved, callVars, others, faults>>

Vanished ==
    /\ status = "DELETING" /\ status' = "none" /\ neutron' = Empty
    /\ UNCHANGED <<bogus, known, saved, callVars, others, faults>>

OthersAct ==
    /\ others < MaxOthers /\ others' = others + 1 /\ ~Busy
    /\ \/ status' = "PENDING" /\ UNCHANGED <<neutron, bogus>>
       \/ \E k \in Kinds : neutron[k] # 0 /\ ~InUse(k) /\ Delete(k)
    /\ UNCHANGED <<known, saved, callVars, faults>>

-----------------------------------------------------------------------------
(* The handler: it removes before it adds, releases what it knows from the  *)
(* member upwards, and a listener with its pool.                            *)

EnsureCalled(k) ==
    /\ pc = "idle" /\ known[k] = 0
    /\ IF k = LoadBalancer THEN saved[k] = 0 ELSE known[k - 1] # 0
    /\ k = Pool => saved[Pool] = 0 \/ known[Listener] # saved[Listener]
    /\ call' = [op |-> "ensure", kind |-> k]
    /\ pc' = IF k = LoadBalancer THEN "create" ELSE "show"
    /\ deadline' = Timeout
    /\ UNCHANGED <<objectVars, known, saved, clock, cleaning, others, faults>>

ReleaseCalled(k) ==
    /\ pc = "idle" /\ known[k] # 0
    /\ \A j \in Kinds : j > k => known[j] = 0
    /\ \A j \in Kinds : known[j] \in {0, saved[j]}
    /\ call' = [op |-> "release", kind |-> k]
    /\ pc' = "delete"
    /\ UNCHANGED <<objectVars, known, saved, clock, deadline, cleaning, others,
                   faults>>

\* A listener is not annotated without its pool.
Annotate ==
    /\ pc = "idle" /\ known # saved
    /\ (known[Listener] = 0) = (known[Pool] = 0)
    /\ saved' = known
    /\ UNCHANGED <<objectVars, known, callVars, others, faults>>

-----------------------------------------------------------------------------
(* The end of a call.                                                       *)

Takes(d) == d \in 0..MaxDelay /\ clock' = clock + d

Returns(i) == Idle /\ known' = [known EXCEPT ![call.kind] = i]

\* The handler starts again from the annotation.
Raises == Idle /\ known' = saved

Goes(next) == /\ pc' = next
              /\ \E d \in 0..MaxDelay : Takes(d)
              /\ UNCHANGED <<known, call>>

-----------------------------------------------------------------------------
(* _provisioning_timer, _wait_for_provisioning.                             *)

\* Mutant: the wait has all the time again.
Remaining_Full == Timeout

\* timer.leftover() when the timer last yielded.
Remaining == Timeout - clock

\* Time has passed when the timer is looked at again.
Sleep(left) ==
    \E s \in 1..MaxInterval : (s = 1 \/ s <= left) /\ clock' = clock + s

Shown == pc = "show" /\ neutron[LoadBalancer] = known[LoadBalancer]

\* Mutant: the caller goes on whatever the status is.
ShowBusy_GoesOn ==
    /\ Shown /\ Busy
    /\ Goes(IF call.op = "ensure" THEN "create" ELSE "pause")
    /\ UNCHANGED <<objectVars, deadline, cleaning>>

ShowActive ==
    /\ Shown /\ ~Busy
    /\ Goes(IF call.op = "ensure" THEN "create" ELSE "pause")
    /\ UNCHANGED <<objectVars, deadline, cleaning>>

ShowBusy ==
    /\ Shown /\ Busy
    /\ Goes("wait")
    /\ UNCHANGED <<objectVars, deadline, cleaning>>

\* Only _release expects it.
ShowNotFound ==
    /\ pc = "show" /\ neutron[LoadBalancer] # known[LoadBalancer]
    /\ IF call.op = "release" THEN Returns(0) ELSE Raises
    /\ UNCHANGED objectVars

\* The timer of the wait.
Wait ==
    /\ pc = "wait" /\ Sleep(deadline - clock)
    /\ pc' = "show"
    /\ clock' <= deadline
    /\ UNCHANGED <<objectVars, known, call, deadline, cleaning>>

\* Mutant: the call begins again.
WaitExpires_Again ==
    /\ pc = "wait" /\ clock + 1 > deadline
    /\ pc' = "show" /\ clock' = 0 /\ deadline' = Timeout
    /\ UNCHANGED <<objectVars, known, call, cleaning>>

WaitExpires ==
    /\ pc = "wait" /\ clock + 1 > deadline
    /\ Raises
    /\ UNCHANGED objectVars

\* The timer of the call.
Pause ==
    /\ pc = "pause" /\ Sleep(Timeout - clock)
    /\ pc' = IF call.op = "ensure" THEN "show" ELSE "delete"
    /\ clock' <= Timeout
    /\ deadline' = clock' + Remaining'
    /\ UNCHANGED <<objectVars, known, call, cleaning>>

PauseExpires ==
    /\ pc = "pause" /\ clock + 1 > Timeout
    /\ Raises
    /\ UNCHANGED objectVars

-----------------------------------------------------------------------------
(* _ensure, _create_ and _find_.                                            *)

CreateOk ==
    /\ pc = "create" /\ MayCreate(call.kind)
    /\ Create(call.kind)
    /\ Returns(NewId(call.kind))

CreateNotFound ==
    /\ pc = "create" /\ ~ParentThere(call.kind)
    /\ Raises
    /\ UNCHANGED objectVars

CreateConflict ==
    /\ pc = "create" /\ ParentThere(call.kind) /\ neutron[call.kind] # 0
    /\ Goes("find")
    /\ UNCHANGED <<objectVars, deadline, cleaning>>

\* StateInvalidClient: a pool comes into being all the same.
CreateRefused ==
    /\ pc = "create" /\ call.kind # LoadBalancer
    /\ ParentThere(call.kind) /\ Busy
    /\ IF call.kind = Pool
       THEN /\ NewIds(Pool) # {} /\ bogus' = bogus \cup {NewId(Pool)}
            /\ Goes("list")
       ELSE Goes("pause") /\ UNCHANGED bogus
    /\ UNCHANGED <<neutron, status, deadline, cleaning>>

\* Mutant: a pool is found by its name only.
Found_ByName ==
    IF ~ParentThere(call.kind) THEN {}
    ELSE {neutron[call.kind]} \cup (IF call.kind = Pool THEN bogus ELSE {})

Found == IF ParentThere(call.kind) THEN {neutron[call.kind]} ELSE {}

Find ==
    /\ pc = "find"
    /\ \E i \in Found \ {0} : Returns(i)
    /\ UNCHANGED objectVars

\* Deleted between `create' and `find': the next round creates it, but there
\* is none for a load balancer, and members are looked up in their pool.
FindNone ==
    /\ pc = "find" /\ Found \subseteq {0}
    /\ IF call.kind = LoadBalancer \/ (call.kind = Member /\ ~ParentThere(Member))
       THEN Raises
       ELSE Goes("pause") /\ UNCHANGED <<deadline, cleaning>>
    /\ UNCHANGED objectVars

\* _cleanup_bogus_pool.
ListBogus ==
    /\ pc = "list"
    /\ cleaning' = bogus
    /\ Goes(IF cleaning' = {} THEN "pause" ELSE "clean")
    /\ UNCHANGED <<objectVars, deadline>>

DeletePool(p) ==
    /\ neutron' = IF p = neutron[Pool] THEN Cut(neutron, Pool) ELSE neutron
    /\ bogus' = bogus \ {p} /\ status' = "PENDING"

\* Refused, the pool stays.
Clean ==
    /\ pc = "clean"
    /\ \E p \in cleaning :
          /\ cleaning' = cleaning \ {p}
          /\ IF Busy THEN UNCHANGED objectVars ELSE DeletePool(p)
    /\ Goes(IF cleaning' = {} THEN "pause" ELSE "clean")
    /\ UNCHANGED deadline

-----------------------------------------------------------------------------
(* _release.                                                                *)

DeleteOk ==
    /\ pc = "delete" /\ MayDelete(call.kind)
    /\ Delete(call.kind)
    /\ Returns(0)

DeleteNotFound ==
    /\ pc = "delete" /\ neutron[call.kind] # known[call.kind]
    /\ Returns(0)
    /\ UNCHANGED objectVars

\* Conflict or StateInvalidClient: the wait begins when the answer is there.
DeleteRefused ==
    /\ pc = "delete" /\ neutron[call.kind] = known[call.kind]
    /\ ~MayDelete(call.kind)
    /\ pc' = "show"
    /\ \E d \in 0..MaxDelay : Takes(d) /\ deadline' = clock' + Remaining
    /\ UNCHANGED <<objectVars, known, call, cleaning>>

-----------------------------------------------------------------------------
\* A request fails, perhaps after it took effect, or the controller restarts.
Fails ==
    /\ faults < MaxFaults /\ faults' = faults + 1
    /\ \/ UNCHANGED objectVars
       \/ pc = "create" /\ MayCreate(call.kind) /\ Create(call.kind)
       \/ pc = "delete" /\ MayDelete(call.kind) /\ Delete(call.kind)
       \/ pc = "clean" /\ ~Busy /\ \E p \in cleaning : DeletePool(p)
    /\ Raises
    /\ UNCHANGED <<saved, others>>

Driver ==
    /\ \/ ShowActive \/ ShowBusy \/ ShowNotFound
       \/ Wait \/ WaitExpires \/ Pause \/ PauseExpires
       \/ CreateOk \/ CreateNotFound \/ CreateConflict \/ CreateRefused
       \/ Find \/ FindNone \/ ListBogus \/ Clean
       \/ DeleteOk \/ DeleteNotFound \/ DeleteRefused
    /\ UNCHANGED <<saved, others, faults>>

Next ==
    \/ \E k \in Kinds : EnsureCalled(k) \/ ReleaseCalled(k)
    \/ Annotate
    \/ Driver
    \/ Provisioned \/ Vanished \/ OthersAct
    \/ Fails

Spec == Init /\ [][Next]_vars

\* The driver's thread runs; what Neutron and others do is up to them.
FairSpec == Spec /\ WF_vars(Driver)

-----------------------------------------------------------------------------
(* Properties.                                                              *)

Atomic == INSTANCE LBaaSCalls WITH real <- neutron, dying <- status = "DELETING"

\* A call is what the handlers take it for: one object ensured or released,
\* whatever requests it took.
CallsAtomic == Atomic!Spec

\* The wait for the load balancer and the wait for the object share one limit:
\* _ensure_provisioned and _release make no request after it but the one that
\* was due, and that one request late.
NoLateRequest ==
    pc \in {"show", "create", "delete"} => clock <= Timeout + MaxDelay

\* Each bogus pool goes back to somebody else's use of the load balancer
\* between two requests of the driver, which has waited for its own.
FewBogusPools == Cardinality(bogus) <= others + faults

\* Every call comes to its end, however long the load balancer is busy.
CallEnds == pc # "idle" ~> pc = "idle"
=============================================================================
