---------------------------- MODULE LBaaSv2_proofs ----------------------------
(***************************************************************************)
(* Proofs about LBaaSv2: its types, that no request is made too late, that *)
(* it implements LBaaSCalls, and that bogus pools are few, for any time    *)
(* limits, ids and bounds.                                                 *)
(*                                                                         *)
(* The steps of an attempt and of its waits change neither what the        *)
(* handler knows nor the chain of objects it belongs to; the steps that    *)
(* end a call are those of LBaaSCalls.  For that the invariant says that   *)
(* what the handler knows, and what it annotated, is a line of ancestors   *)
(* of what exists (Chained, Lineage), and what a call works with at each   *)
(* of its requests (CallOK) and by when (Timely).  Bogus pools are counted *)
(* with the room for one more that a use by somebody else makes (Room).    *)
(***************************************************************************)
EXTENDS LBaaSv2, FiniteSetTheorems, TLAPS

Requests == {"show", "wait", "create", "find", "list", "clean", "delete", "pause"}

ObjectTypes == /\ neutron \in Chains /\ bogus \subseteq Ids
               /\ status \in {"none", "ACTIVE", "PENDING", "DELETING"}

CallTypes == /\ pc \in Requests \cup {"idle"} /\ cleaning \subseteq Ids
             /\ IF pc = "idle" THEN call = NoCall ELSE call \in Calls
             /\ clock \in Nat /\ deadline \in Nat

-----------------------------------------------------------------------------
(* Types.                                                                   *)

LEMMA NewIdFresh ==
    ASSUME NEW k \in Kinds, NewIds(k) # {}
    PROVE  NewId(k) \in NewIds(k)
BY DEF NewId

LEMMA CutTypes ==
    ASSUME NEW c \in Chains, NEW k \in Kinds
    PROVE  Cut(c, k) \in Chains
BY DEF Cut, Chains

LEMMA CreateTypes ==
    ASSUME TypeOK, NEW k \in Kinds, MayCreate(k), Create(k)
    PROVE  ObjectTypes'
BY NewIdFresh DEF TypeOK, ObjectTypes, Create, MayCreate, NewIds, Chains

LEMMA DeleteTypes ==
    ASSUME TypeOK, NEW k \in Kinds, Delete(k)
    PROVE  ObjectTypes'
BY CutTypes DEF TypeOK, ObjectTypes, Delete, Chains, Kinds, LoadBalancer, Member, Pool

LEMMA DeletePoolTypes ==
    ASSUME TypeOK, NEW p, DeletePool(p)
    PROVE  ObjectTypes'
BY CutTypes DEF TypeOK, ObjectTypes, DeletePool, Kinds, LoadBalancer, Member, Pool

LEMMA ClockTypes ==
    ASSUME TypeOK
    PROVE  /\ \A d : Takes(d) => clock' \in Nat /\ clock' <= clock + MaxDelay
           /\ \A l : Sleep(l) => clock' \in Nat
BY TimeAssumption DEF TypeOK, Takes, Sleep

LEMMA GoesTypes ==
    ASSUME TypeOK, pc # "idle", NEW next \in Requests, Goes(next)
    PROVE  /\ pc' = next /\ call' = call /\ call \in Calls /\ known' = known
           /\ clock' \in Nat /\ clock' <= clock + MaxDelay
BY ClockTypes DEF TypeOK, Goes, Requests

LEMMA IdleTypes ==
    ASSUME Idle
    PROVE  CallTypes'
BY DEF Idle, CallTypes

LEMMA ReturnTypes ==
    ASSUME TypeOK, pc # "idle", NEW i \in Ids \cup {0}, Returns(i)
    PROVE  CallTypes' /\ known' \in Chains
BY IdleTypes DEF Returns, TypeOK, Chains

LEMMA RaiseTypes ==
    ASSUME TypeOK, Raises
    PROVE  CallTypes' /\ known' \in Chains
BY IdleTypes DEF Raises, TypeOK

\* Requests and waits that leave Neutron's objects alone.
Waiting ==
    \/ ShowActive \/ ShowBusy \/ Wait \/ Pause \/ CreateConflict
    \/ ListBogus \/ DeleteRefused

LEMMA WaitingTypes ==
    ASSUME TypeOK, Waiting
    PROVE  ObjectTypes' /\ CallTypes' /\ known' \in Chains
<1>0. /\ pc \in Requests /\ call \in Calls /\ clock \in Nat /\ deadline \in Nat
      /\ UNCHANGED objectVars /\ UNCHANGED <<known, call>>
  BY DEF TypeOK, Waiting, ShowActive, ShowBusy, Shown, Wait, Pause, CreateConflict,
         ListBogus, DeleteRefused, Goes, Requests
<1>1. ObjectTypes' /\ known' \in Chains
  BY <1>0 DEF TypeOK, ObjectTypes, objectVars
<1>2. CallTypes'
  <2>1. CASE ShowActive \/ ShowBusy \/ CreateConflict \/ ListBogus
    BY <1>0, <2>1, GoesTypes
       DEF TypeOK, ShowActive, ShowBusy, Shown, CreateConflict, ListBogus,
           Requests, CallTypes
  <2>2. CASE Wait
    BY <1>0, <2>2, ClockTypes DEF TypeOK, Wait, Requests, CallTypes
  <2>3. CASE Pause
    <3>1. clock' \in Nat /\ deadline' = clock' + (Timeout - clock')
      BY <2>3, ClockTypes DEF Pause, Remaining
    <3>2. deadline' = Timeout /\ deadline' \in Nat
      BY <3>1, TimeAssumption, \A a, b \in Nat : a + (b - a) = b
    <3>3. (pc' = "show" \/ pc' = "delete") /\ cleaning' = cleaning
      BY <2>3 DEF Pause
    <3>4. call' \in Calls /\ cleaning' \subseteq Ids
      BY <1>0, <3>3 DEF TypeOK
    <3> QED
      BY <3>1, <3>2, <3>3, <3>4 DEF Requests, CallTypes
  <2>4. CASE DeleteRefused
    <3>1. PICK d \in 0..MaxDelay : Takes(d) /\ deadline' = clock' + Remaining
      BY <2>4 DEF DeleteRefused
    <3>2. clock' \in Nat /\ clock' = clock + d
      BY <3>1, ClockTypes DEF Takes
    <3>3. deadline' \in Nat
      BY <1>0, <3>1, <3>2, TimeAssumption DEF Remaining
    <3> QED
      BY <1>0, <2>4, <3>2, <3>3 DEF TypeOK, DeleteRefused, Requests, CallTypes
  <2> QED
    BY <2>1, <2>2, <2>3, <2>4 DEF Waiting
<1> QED
  BY <1>1, <1>2

LEMMA DriverTypes ==
    ASSUME TypeOK, Driver
    PROVE  ObjectTypes' /\ CallTypes' /\ known' \in Chains
<1>0. /\ pc \in Requests /\ call \in Calls /\ call.kind \in Kinds
      /\ ObjectTypes /\ CallTypes /\ known \in Chains
  BY DEF TypeOK, ObjectTypes, CallTypes, Driver, ShowActive, ShowBusy, Shown,
         ShowNotFound, Wait, WaitExpires, Pause, PauseExpires, CreateOk,
         CreateNotFound, CreateConflict, CreateRefused, Find, FindNone, ListBogus,
         Clean, DeleteOk, DeleteNotFound, DeleteRefused, Calls, Requests
<1>1. CASE Waiting
  BY <1>1, WaitingTypes
<1>2. CASE ShowNotFound \/ WaitExpires \/ PauseExpires \/ CreateNotFound \/ DeleteNotFound
  <2>1. UNCHANGED objectVars /\ (Raises \/ Returns(0))
    BY <1>2 DEF ShowNotFound, WaitExpires, PauseExpires, CreateNotFound, DeleteNotFound
  <2> QED
    BY <1>0, <2>1, RaiseTypes, ReturnTypes DEF ObjectTypes, objectVars, Requests
<1>3. CASE CreateOk
  BY <1>0, <1>3, CreateTypes, ReturnTypes, NewIdFresh
     DEF CreateOk, MayCreate, NewIds, Requests
<1>4. CASE CreateRefused
  <2>1. /\ neutron' = neutron /\ status' = status /\ cleaning' = cleaning
        /\ deadline' = deadline /\ (Goes("list") \/ Goes("pause"))
    BY <1>4 DEF CreateRefused
  <2>2. bogus' \subseteq Ids
    BY <1>0, <1>4, NewIdFresh
       DEF CreateRefused, ObjectTypes, NewIds, Kinds, LoadBalancer, Pool, Member
  <2> QED
    BY <1>0, <2>1, <2>2, GoesTypes DEF ObjectTypes, CallTypes, Requests
<1>5. CASE Find
  <2>1. \A i \in Found : i \in Ids \cup {0}
    BY <1>0 DEF Found, ObjectTypes, Chains
  <2> QED
    BY <1>0, <1>5, <2>1, ReturnTypes DEF Find, ObjectTypes, objectVars, Requests
<1>6. CASE FindNone
  <2>1. UNCHANGED objectVars /\ (Raises \/ (Goes("pause") /\ UNCHANGED <<deadline, cleaning>>))
    BY <1>6 DEF FindNone
  <2> QED
    BY <1>0, <2>1, RaiseTypes, GoesTypes DEF ObjectTypes, objectVars, CallTypes, Requests
<1>7. CASE Clean
  <2>1. PICK p \in cleaning : /\ cleaning' = cleaning \ {p}
                              /\ UNCHANGED objectVars \/ DeletePool(p)
    BY <1>7 DEF Clean
  <2>2. ObjectTypes'
    BY <1>0, <2>1, DeletePoolTypes DEF ObjectTypes, objectVars
  <2>3. /\ Goes("pause") \/ Goes("clean")
        /\ deadline' = deadline
    BY <1>7, Zenon DEF Clean
  <2> QED
    BY <1>0, <2>1, <2>2, <2>3, GoesTypes DEF CallTypes, Requests
<1>8. CASE DeleteOk
  BY <1>0, <1>8, DeleteTypes, ReturnTypes DEF DeleteOk, Requests
<1> QED
  BY <1>1, <1>2, <1>3, <1>4, <1>5, <1>6, <1>7, <1>8 DEF Driver, Waiting

LEMMA StepTypes == ASSUME TypeOK, [Next]_vars PROVE TypeOK'
<1>1. CASE Driver
  <2>1. UNCHANGED <<saved, others, faults>>
    BY <1>1 DEF Driver
  <2> QED
    BY <1>1, <2>1, DriverTypes DEF TypeOK, ObjectTypes, CallTypes, Requests
<1>2. ASSUME NEW k \in Kinds, EnsureCalled(k) \/ ReleaseCalled(k)
      PROVE  TypeOK'
  BY <1>2, TimeAssumption
     DEF TypeOK, EnsureCalled, ReleaseCalled, Calls, objectVars
<1>3. CASE Annotate
  BY <1>3 DEF TypeOK, Annotate, objectVars, callVars
<1>4. CASE Provisioned \/ Vanished
  BY <1>4 DEF TypeOK, Provisioned, Vanished, callVars, Empty, Chains
<1>5. CASE OthersAct
  <2>1. ObjectTypes'
    <3>1. CASE status' = "PENDING" /\ UNCHANGED <<neutron, bogus>>
      BY <3>1 DEF TypeOK, ObjectTypes
    <3> QED
      BY <1>5, <3>1, DeleteTypes DEF OthersAct
  <2> QED
    BY <1>5, <2>1 DEF OthersAct, TypeOK, ObjectTypes, callVars
<1>6. CASE Fails
  <2>1. ObjectTypes'
    <3>1. ASSUME pc # "idle" PROVE call.kind \in Kinds
      BY <3>1 DEF TypeOK, Calls
    <3>2. CASE UNCHANGED objectVars
      BY <3>2 DEF TypeOK, ObjectTypes, objectVars
    <3> QED
      BY <1>6, <3>1, <3>2, CreateTypes, DeleteTypes, DeletePoolTypes DEF Fails
  <2>2. CallTypes' /\ known' \in Chains
    BY <1>6, RaiseTypes DEF Fails
  <2> QED
    BY <1>6, <2>1, <2>2 DEF Fails, TypeOK, ObjectTypes, CallTypes, Requests
<1>7. CASE UNCHANGED vars
  BY <1>7 DEF TypeOK, vars
<1> QED
  BY <1>1, <1>2, <1>3, <1>4, <1>5, <1>6, <1>7 DEF Next

\* Types, for any time limits, ids and bounds.
THEOREM TypeCorrect == Spec => []TypeOK
<1>1. Init => TypeOK
  BY DEF Init, TypeOK, Empty, Chains
<1> QED
  BY <1>1, StepTypes, PTL DEF Spec

-----------------------------------------------------------------------------
(* The inductive invariant.                                                 *)

Others == Kinds \ {LoadBalancer}

\* Nobody knows or has an object without knowing or having its parent.
Chained(c) == \A k \in Others : c[k] # 0 => c[k - 1] # 0

\* Who knows an object that exists knows the parent it has.
Lineage(c, n) == \A k \in Others : c[k] # 0 /\ c[k] = n[k] => c[k - 1] = n[k - 1]

ChainsOK == /\ Chained(neutron) /\ Chained(known) /\ Chained(saved)
            /\ Lineage(known, neutron) /\ Lineage(saved, neutron)

PoolsApart == neutron[Pool] \notin bogus /\ cleaning \subseteq bogus

StatusOK == status = "DELETING" => neutron[LoadBalancer] # 0

CallOK ==
    /\ pc \in {"create", "find", "list", "clean"} => call.op = "ensure"
    /\ pc = "delete" => call.op = "release"
    /\ call.op = "ensure" /\ call.kind # LoadBalancer => known[call.kind - 1] # 0
    /\ call.op = "release" => /\ known[call.kind] # 0
                              /\ \A j \in Kinds : j > call.kind => known[j] = 0

Timely ==
    /\ pc = "idle" => clock = 0
    /\ pc \in {"show", "wait"} /\ call.op = "ensure" => deadline <= Timeout
    /\ pc \in {"show", "wait"} => deadline <= Timeout + MaxDelay
    /\ pc = "show" => clock <= deadline
    /\ pc = "create" => clock <= Timeout + MaxDelay
    /\ pc = "delete" => clock <= Timeout

IInv == TypeOK /\ ChainsOK /\ PoolsApart /\ StatusOK /\ CallOK /\ Timely

USE DEF LoadBalancer, Listener, Pool, Member, Kinds

LEMMA LineageCreate ==
    ASSUME NEW c \in Chains, NEW n \in Chains, Chained(n), Lineage(c, n),
           NEW k \in Kinds, n[k] = 0, NEW i \in Ids, c[k] # i
    PROVE  Lineage(c, [n EXCEPT ![k] = i])
BY DEF Lineage, Chained, Chains, Others

LEMMA LineageCut ==
    ASSUME NEW c \in Chains, NEW n \in Chains, Lineage(c, n), NEW k \in Kinds
    PROVE  Lineage(c, Cut(n, k))
BY DEF Lineage, Cut, Others

LEMMA ChainedCut ==
    ASSUME NEW n \in Chains, Chained(n), NEW k \in Kinds
    PROVE  Chained(Cut(n, k))
BY DEF Chained, Cut, Others

LEMMA ChainedSet ==
    ASSUME NEW c \in Chains, Chained(c), NEW k \in Kinds, NEW i \in Ids,
           k # LoadBalancer => c[k - 1] # 0
    PROVE  Chained([c EXCEPT ![k] = i])
BY IdAssumption DEF Chained, Chains, Others

LEMMA LineageSet ==
    ASSUME NEW c \in Chains, NEW n \in Chains, Lineage(c, n), NEW k \in Kinds,
           k # LoadBalancer => n[k - 1] = c[k - 1]
    PROVE  Lineage([c EXCEPT ![k] = n[k]], n)
BY DEF Lineage, Chains, Others

LEMMA Dropped ==
    ASSUME NEW c \in Chains, NEW n \in Chains, Chained(c), Lineage(c, n),
           NEW k \in Kinds, \A j \in Kinds : j > k => c[j] = 0
    PROVE  /\ Chained([c EXCEPT ![k] = 0])
           /\ Lineage([c EXCEPT ![k] = 0], n)
BY DEF Chained, Lineage, Chains, Others

LEMMA EmptyChain ==
    ASSUME NEW c \in Chains
    PROVE  Chained(Empty) /\ Lineage(c, Empty)
BY DEF Chained, Lineage, Empty, Others

\* What a change in Neutron must keep, whatever becomes of the call.
ObjectsKept ==
    /\ Chained(neutron') /\ Lineage(known, neutron') /\ Lineage(saved, neutron')
    /\ neutron'[Pool] \notin bogus'
    /\ status' = "DELETING" => neutron'[LoadBalancer] # 0

ObjectsOK == TypeOK /\ ChainsOK /\ PoolsApart /\ StatusOK

LEMMA UnchangedKept ==
    ASSUME ObjectsOK, UNCHANGED objectVars
    PROVE  ObjectsKept
BY DEF ObjectsOK, ObjectsKept, ChainsOK, PoolsApart, StatusOK, objectVars

LEMMA CreateKept ==
    ASSUME ObjectsOK, NEW k \in Kinds, MayCreate(k), Create(k),
           k # LoadBalancer => known[k - 1] # 0
    PROVE  ObjectsKept /\ neutron'[k] = NewId(k) /\ NewId(k) \in Ids
<1>1. /\ NewId(k) \in Ids /\ NewId(k) \notin {known[k], saved[k]} \cup bogus
      /\ neutron' = [neutron EXCEPT ![k] = NewId(k)] /\ neutron[k] = 0
      /\ status' = "PENDING" /\ bogus' = bogus
      /\ k # LoadBalancer => neutron[k - 1] = known[k - 1]
  BY NewIdFresh DEF MayCreate, Create, NewIds, ParentThere
<1>2. neutron \in Chains /\ known \in Chains /\ saved \in Chains
  BY DEF ObjectsOK, TypeOK
<1>3. Chained(neutron')
  BY <1>1, <1>2, ChainedSet DEF ObjectsOK, ChainsOK
<1>4. Lineage(known, neutron') /\ Lineage(saved, neutron')
  BY <1>1, <1>2, LineageCreate DEF ObjectsOK, ChainsOK
<1>5. neutron'[k] = NewId(k)
  BY <1>1, <1>2 DEF Chains
<1>6. neutron'[Pool] \notin bogus'
  BY <1>1, <1>2 DEF ObjectsOK, PoolsApart, Chains
<1> QED
  BY <1>1, <1>3, <1>4, <1>5, <1>6 DEF ObjectsKept

LEMMA DeleteKept ==
    ASSUME ObjectsOK, NEW k \in Kinds, neutron[k] # 0, Delete(k)
    PROVE  ObjectsKept
<1>1. neutron \in Chains /\ known \in Chains /\ saved \in Chains /\ bogus \subseteq Ids
  BY DEF ObjectsOK, TypeOK
<1>2. CASE k = LoadBalancer
  BY <1>2 DEF Delete, ObjectsOK, ObjectsKept, ChainsOK, PoolsApart
<1>3. CASE k # LoadBalancer
  <2>1. neutron' = Cut(neutron, k) /\ status' = "PENDING"
    BY <1>3 DEF Delete
  <2>2. neutron'[Pool] = 0 \/ (neutron'[Pool] = neutron[Pool] /\ bogus' = bogus)
    BY <1>3, <2>1 DEF Delete, Cut
  <2>3. 0 \notin bogus'
    BY <1>1, IdAssumption DEF Delete
  <2> QED
    BY <1>1, <2>1, <2>2, <2>3, ChainedCut, LineageCut
       DEF ObjectsOK, ObjectsKept, ChainsOK, PoolsApart
<1> QED
  BY <1>2, <1>3

\* The pools that are cleaned up have no listener.
LEMMA DeletePoolKept ==
    ASSUME ObjectsOK, NEW p \in cleaning, DeletePool(p), ~Busy
    PROVE  /\ ObjectsKept /\ neutron' = neutron
           /\ bogus' = bogus \ {p} /\ status' = "PENDING" /\ status = "ACTIVE"
<1>1. p # neutron[Pool]
  BY DEF ObjectsOK, PoolsApart
<1> QED
  BY <1>1 DEF DeletePool, Busy, ObjectsOK, ObjectsKept, ChainsOK, PoolsApart

-----------------------------------------------------------------------------
(* Steps in the middle of a call.                                           *)

Continues ==
    /\ neutron' = neutron /\ (status' = "DELETING") = (status = "DELETING")
    /\ UNCHANGED <<known, call>>

LooksAgain == FindNone /\ Goes("pause") /\ UNCHANGED <<deadline, cleaning>>

Attempting == Waiting \/ CreateRefused \/ Clean \/ LooksAgain

LEMMA AttemptObjects ==
    ASSUME IInv, Attempting
    PROVE  ObjectsKept /\ Continues /\ cleaning' \subseteq bogus'
<1>0. ObjectsOK
  BY DEF IInv, ObjectsOK
<1>1. CASE Waiting \/ LooksAgain
  <2>1. /\ UNCHANGED objectVars /\ UNCHANGED <<known, call>>
        /\ cleaning' \in {cleaning, bogus}
    BY <1>1 DEF Waiting, ShowActive, ShowBusy, Wait, Pause, CreateConflict,
                ListBogus, DeleteRefused, LooksAgain, FindNone, Goes
  <2> QED
    BY <1>0, <2>1, UnchangedKept DEF Continues, objectVars, ObjectsOK, PoolsApart
<1>2. CASE CreateRefused
  <2>1. /\ neutron' = neutron /\ status' = status /\ UNCHANGED <<known, call>>
        /\ cleaning' = cleaning
    BY <1>2 DEF CreateRefused, Goes
  <2>2. \/ bogus' = bogus
        \/ /\ bogus' = bogus \cup {NewId(Pool)}
           /\ NewId(Pool) \in NewIds(Pool)
    BY <1>2, NewIdFresh DEF CreateRefused
  <2>3. neutron'[Pool] \notin bogus' /\ cleaning' \subseteq bogus'
    BY <1>0, <2>1, <2>2 DEF NewIds, ObjectsOK, PoolsApart
  <2> QED
    BY <1>0, <2>1, <2>3 DEF Continues, ObjectsKept, ObjectsOK, ChainsOK, StatusOK
<1>3. CASE Clean
  <2>1. PICK p \in cleaning :
           /\ cleaning' = cleaning \ {p}
           /\ UNCHANGED objectVars \/ (DeletePool(p) /\ ~Busy)
    BY <1>3 DEF Clean
  <2>2. UNCHANGED <<known, call>>
    BY <1>3 DEF Clean, Goes
  <2>3. CASE UNCHANGED objectVars
    BY <1>0, <2>1, <2>2, <2>3, UnchangedKept
       DEF Continues, objectVars, ObjectsOK, PoolsApart
  <2>4. CASE DeletePool(p) /\ ~Busy
    BY <1>0, <2>1, <2>2, <2>4, DeletePoolKept DEF Continues, ObjectsOK, PoolsApart
  <2> QED
    BY <2>1, <2>3, <2>4
<1> QED
  BY <1>1, <1>2, <1>3 DEF Attempting

LEMMA AttemptCall ==
    ASSUME IInv, Attempting
    PROVE  CallOK'
<1>1. UNCHANGED <<known, call>>
  BY AttemptObjects DEF Continues
<1>2. call \in Calls
  BY DEF IInv, TypeOK, Attempting, Waiting, ShowActive, ShowBusy, Shown, Wait, Pause,
         CreateConflict, ListBogus, DeleteRefused, CreateRefused, Clean, LooksAgain,
         FindNone
<1>3. /\ pc' \in {"create", "find", "list", "clean"} => call.op = "ensure"
      /\ pc' = "delete" => call.op = "release"
  BY <1>2 DEF IInv, CallOK, Attempting, Waiting, ShowActive, ShowBusy, Wait, Pause,
         CreateConflict, ListBogus, DeleteRefused, CreateRefused, Clean, LooksAgain,
         FindNone, Goes, Calls
<1> QED
  BY <1>1, <1>3 DEF IInv, CallOK

LEMMA AttemptTimely ==
    ASSUME IInv, Attempting
    PROVE  Timely'
<1>0. /\ call' = call /\ clock \in Nat /\ deadline \in Nat /\ Timeout \in Nat
      /\ MaxDelay \in Nat
  BY AttemptObjects, TimeAssumption DEF Continues, IInv, TypeOK
<1>1. CASE ShowActive \/ ShowBusy
  <2>1. /\ clock' \in Nat /\ clock' <= clock + MaxDelay
        /\ deadline' = deadline /\ pc = "show"
        /\ pc' = "wait" \/ pc' = "pause" \/ (pc' = "create" /\ call.op = "ensure")
    BY <1>1, GoesTypes DEF IInv, ShowActive, ShowBusy, Shown, Requests
  <2> QED
    BY <1>0, <2>1 DEF IInv, Timely
<1>2. CASE Wait
  BY <1>0, <1>2 DEF Wait, IInv, Timely
<1>3. CASE Pause
  <2>1. clock' \in Nat /\ clock' <= Timeout /\ deadline' = clock' + (Timeout - clock')
    BY <1>3, ClockTypes DEF Pause, Remaining, IInv
  <2>2. deadline' = Timeout
    BY <1>0, <2>1, \A a, b \in Nat : a + (b - a) = b
  <2>3. clock' \in Nat /\ clock' <= Timeout /\ (pc' = "show" \/ pc' = "delete")
    BY <1>3, <2>1 DEF Pause
  <2> QED
    BY <1>0, <2>2, <2>3 DEF Timely
<1>4. CASE DeleteRefused
  <2>1. PICK d \in 0..MaxDelay : Takes(d) /\ deadline' = clock' + Remaining
    BY <1>4 DEF DeleteRefused
  <2>2. /\ pc = "delete" /\ call.op = "release" /\ clock <= Timeout
        /\ pc' = "show" /\ clock' = clock + d
        /\ deadline' = (clock + d) + (Timeout - clock)
    BY <1>4, <2>1 DEF DeleteRefused, Takes, Remaining, IInv, CallOK, Timely
  <2>3. clock' <= deadline' /\ deadline' <= Timeout + MaxDelay
    BY <1>0, <2>2
  <2> QED
    BY <1>0, <2>2, <2>3 DEF Timely
<1>5. CASE pc' \in {"find", "list", "clean", "pause"}
  BY <1>5 DEF Timely
<1>6. CreateConflict \/ ListBogus \/ CreateRefused \/ Clean \/ LooksAgain
        => pc' \in {"find", "list", "clean", "pause"}
  BY DEF CreateConflict, ListBogus, CreateRefused, Clean, LooksAgain, Goes
<1> QED
  BY <1>1, <1>2, <1>3, <1>4, <1>5, <1>6 DEF Attempting, Waiting

-----------------------------------------------------------------------------
(* Steps that end a call: each is a step of LBaaSCalls.                     *)

IOther == ChainsOK' /\ PoolsApart' /\ StatusOK' /\ CallOK' /\ Timely'

LEMMA IdleOK ==
    ASSUME Idle
    PROVE  CallOK' /\ Timely' /\ cleaning' = {} /\ call' = NoCall
BY TimeAssumption DEF Idle, CallOK, Timely, NoCall

LEMMA Frame ==
    ASSUME IInv, ObjectsKept, Idle \/ (CallOK' /\ Timely' /\ cleaning' \subseteq bogus'),
           saved' = saved, known' \in {known, saved}
    PROVE  IOther
<1>1. CallOK' /\ Timely' /\ cleaning' \subseteq bogus'
  BY IdleOK
<1>2. ChainsOK' /\ StatusOK' /\ neutron'[Pool] \notin bogus'
  BY DEF ObjectsKept, IInv, ChainsOK, StatusOK
<1> QED
  BY <1>1, <1>2 DEF IOther, PoolsApart

\* What a request that created or deleted an object is in LBaaSCalls.
LEMMA CreateMaps ==
    ASSUME IInv, NEW k \in Kinds, MayCreate(k), Create(k)
    PROVE  Atomic!Created(k)
<1>1. /\ NewId(k) \in Ids \ {known[k], saved[k]}
      /\ neutron' = [neutron EXCEPT ![k] = NewId(k)] /\ neutron[k] = 0
      /\ k # LoadBalancer => neutron[k - 1] = known[k - 1]
      /\ status' = "PENDING"
  BY NewIdFresh DEF MayCreate, Create, NewIds, ParentThere
<1>2. status # "DELETING"
  BY <1>1 DEF MayCreate, Busy, IInv, StatusOK
<1> QED
  BY <1>1, <1>2 DEF Atomic!Created, Atomic!LoadBalancer

LEMMA DeleteMaps ==
    ASSUME IInv, NEW k \in Kinds, neutron[k] # 0, ~Busy, Delete(k)
    PROVE  Atomic!Deleted(k)
BY DEF Delete, Busy, Atomic!Deleted, Atomic!LoadBalancer, Atomic!Cut, Cut,
       Atomic!Kinds, Atomic!Member

\* A call that fails without a trace.
LEMMA RaiseStep ==
    ASSUME IInv, UNCHANGED objectVars, Raises, saved' = saved
    PROVE  IOther /\ Atomic!Failed
<1>1. ObjectsKept
  BY UnchangedKept DEF IInv, ObjectsOK
<1>2. IOther
  BY <1>1, Frame DEF Raises
<1>3. Atomic!Failed
  BY IdleOK DEF Raises, objectVars, Atomic!Failed, Atomic!NoCall, NoCall,
     Atomic!LoadBalancer
<1> QED
  BY <1>2, <1>3

\* What the handler knows of a missing load balancer is missing too.
LEMMA NothingWithoutIt ==
    ASSUME IInv, neutron[LoadBalancer] # known[LoadBalancer],
           NEW k \in Kinds, known[k] # 0
    PROVE  neutron[k] # known[k]
BY DEF IInv, ChainsOK, Chained, Lineage, Others

LEMMA GoneStep ==
    ASSUME IInv, UNCHANGED objectVars, Returns(0), saved' = saved,
           call.op = "release", call.kind \in Kinds,
           neutron[call.kind] # known[call.kind]
    PROVE  IOther /\ Atomic!Released
<1>1. ObjectsKept
  BY UnchangedKept DEF IInv, ObjectsOK
<1>2. /\ known' = [known EXCEPT ![call.kind] = 0] /\ CallOK' /\ Timely'
      /\ cleaning' = {} /\ call' = NoCall
  BY IdleOK DEF Returns
<1>3. Chained(known') /\ Lineage(known', neutron')
  BY <1>2, Dropped DEF IInv, CallOK, TypeOK, ChainsOK, objectVars
<1>4. IOther
  BY <1>1, <1>2, <1>3 DEF IOther, IInv, ObjectsKept, ChainsOK, StatusOK, PoolsApart
<1>5. Atomic!Released
  BY <1>2 DEF Atomic!Released, Atomic!NoCall, NoCall, Atomic!LoadBalancer, objectVars
<1> QED
  BY <1>4, <1>5

LEMMA CreateOkStep ==
    ASSUME IInv, CreateOk, saved' = saved
    PROVE  IOther /\ Atomic!Ensured
<1> DEFINE k == call.kind
<1>1. /\ k \in Kinds /\ call.op = "ensure" /\ MayCreate(k) /\ Create(k)
      /\ known' = [known EXCEPT ![k] = NewId(k)] /\ Idle
      /\ k # LoadBalancer => known[k - 1] # 0
  BY DEF CreateOk, Returns, IInv, TypeOK, CallOK, Calls
<1>2. ObjectsKept /\ neutron'[k] = NewId(k) /\ NewId(k) \in Ids
  BY <1>1, CreateKept DEF IInv, ObjectsOK
<1>3. Chained(known') /\ known \in Chains
  BY <1>1, <1>2, ChainedSet DEF IInv, TypeOK, ChainsOK
<1>4. Lineage(known', neutron')
  <2>1. k # LoadBalancer => neutron'[k - 1] = known[k - 1]
    BY <1>1 DEF MayCreate, Create, ParentThere, IInv, TypeOK, Chains
  <2>2. neutron' \in Chains
    BY <1>1, CreateTypes DEF IInv, ObjectTypes
  <2> QED
    BY <1>1, <1>2, <1>3, <2>1, <2>2, LineageSet DEF ObjectsKept
<1>5. IOther
  BY <1>1, <1>2, <1>3, <1>4, IdleOK
     DEF IOther, IInv, ObjectsKept, ChainsOK, StatusOK, PoolsApart
<1>6. Atomic!Ensured
  BY <1>1, <1>2, CreateMaps, IdleOK
     DEF Atomic!Ensured, Atomic!NoCall, NoCall, Atomic!LoadBalancer
<1> QED
  BY <1>5, <1>6

LEMMA FindStep ==
    ASSUME IInv, Find, saved' = saved
    PROVE  IOther /\ Atomic!Ensured
<1> DEFINE k == call.kind
<1>1. /\ k \in Kinds /\ call.op = "ensure" /\ ParentThere(k) /\ neutron[k] # 0
      /\ known' = [known EXCEPT ![k] = neutron[k]] /\ Idle /\ UNCHANGED objectVars
      /\ k # LoadBalancer => known[k - 1] # 0
  BY DEF Find, Found, Returns, IInv, TypeOK, CallOK, Calls
<1>2. ObjectsKept
  BY <1>1, UnchangedKept DEF IInv, ObjectsOK
<1>3. known \in Chains /\ neutron \in Chains /\ neutron[k] \in Ids
  BY <1>1 DEF IInv, TypeOK, Chains
<1>4. Chained(known') /\ Lineage(known', neutron')
  BY <1>1, <1>3, ChainedSet, LineageSet DEF IInv, ChainsOK, ParentThere, objectVars
<1>5. IOther
  BY <1>1, <1>2, <1>4, IdleOK
     DEF IOther, IInv, ObjectsKept, ChainsOK, StatusOK, PoolsApart
<1>6. Atomic!Ensured
  BY <1>1, IdleOK
     DEF Atomic!Ensured, Atomic!NoCall, NoCall, Atomic!LoadBalancer, objectVars
<1> QED
  BY <1>5, <1>6

LEMMA DeleteOkStep ==
    ASSUME IInv, DeleteOk, saved' = saved
    PROVE  IOther /\ Atomic!Released
<1> DEFINE k == call.kind
<1>1. /\ k \in Kinds /\ call.op = "release" /\ neutron[k] = known[k] /\ ~Busy
      /\ Delete(k) /\ known' = [known EXCEPT ![k] = 0] /\ Idle
      /\ known[k] # 0 /\ \A j \in Kinds : j > k => known[j] = 0
  BY DEF DeleteOk, MayDelete, Returns, IInv, TypeOK, CallOK, Calls
<1>2. ObjectsKept /\ neutron' \in Chains
  BY <1>1, DeleteKept, DeleteTypes DEF IInv, ObjectsOK, ObjectTypes
<1>3. Chained(known') /\ Lineage(known', neutron')
  BY <1>1, <1>2, Dropped DEF IInv, TypeOK, ChainsOK, ObjectsKept
<1>4. IOther
  BY <1>1, <1>2, <1>3, IdleOK
     DEF IOther, IInv, ObjectsKept, ChainsOK, StatusOK, PoolsApart
<1>5. Atomic!Released
  BY <1>1, DeleteMaps, IdleOK
     DEF Atomic!Released, Atomic!NoCall, NoCall, Atomic!LoadBalancer
<1> QED
  BY <1>4, <1>5

-----------------------------------------------------------------------------
(* All steps.                                                               *)

AtomicStep == Atomic!Next \/ UNCHANGED Atomic!vars

LEMMA DriverStep ==
    ASSUME IInv, Driver
    PROVE  IOther /\ AtomicStep
<1>0. saved' = saved
  BY DEF Driver
<1>1. CASE Attempting
  <2>1. ObjectsKept /\ Continues /\ cleaning' \subseteq bogus' /\ CallOK' /\ Timely'
    BY <1>1, AttemptObjects, AttemptCall, AttemptTimely
  <2> QED
    BY <1>0, <2>1, Frame DEF Continues, AtomicStep, Atomic!vars
<1>2. CASE WaitExpires \/ PauseExpires \/ CreateNotFound
           \/ (FindNone /\ Raises) \/ (ShowNotFound /\ Raises)
  <2>1. UNCHANGED objectVars /\ Raises
    BY <1>2 DEF WaitExpires, PauseExpires, CreateNotFound, FindNone, ShowNotFound
  <2> QED
    BY <1>0, <2>1, RaiseStep DEF AtomicStep, Atomic!Next
<1>3. CASE DeleteNotFound \/ (ShowNotFound /\ call.op = "release" /\ Returns(0))
  <2>1. /\ UNCHANGED objectVars /\ Returns(0) /\ call.op = "release"
        /\ call.kind \in Kinds
    BY <1>3 DEF DeleteNotFound, ShowNotFound, IInv, TypeOK, CallOK, Calls
  <2>2. neutron[call.kind] # known[call.kind]
    BY <1>3, <2>1, NothingWithoutIt DEF DeleteNotFound, ShowNotFound, IInv, CallOK
  <2> QED
    BY <1>0, <2>1, <2>2, GoneStep DEF AtomicStep, Atomic!Next
<1>4. CASE CreateOk \/ Find \/ DeleteOk
  BY <1>0, <1>4, CreateOkStep, FindStep, DeleteOkStep DEF AtomicStep, Atomic!Next
<1>5. /\ FindNone => LooksAgain \/ Raises
      /\ ShowNotFound => Raises \/ (call.op = "release" /\ Returns(0))
  BY DEF FindNone, LooksAgain, ShowNotFound
<1> QED
  BY <1>1, <1>2, <1>3, <1>4, <1>5 DEF Driver, Attempting, Waiting

LEMMA HandlerStep ==
    ASSUME IInv,
           Annotate \/ \E k \in Kinds : EnsureCalled(k) \/ ReleaseCalled(k)
    PROVE  IOther /\ AtomicStep
<1>1. ASSUME NEW k \in Kinds, EnsureCalled(k)
      PROVE  IOther /\ AtomicStep
  <2>1. CallOK' /\ Timely' /\ cleaning' \subseteq bogus' /\ UNCHANGED <<known, saved>>
    BY <1>1, TimeAssumption
       DEF EnsureCalled, CallOK, Timely, IInv, TypeOK, PoolsApart, objectVars
  <2>2. ObjectsKept
    BY <1>1, UnchangedKept DEF EnsureCalled, IInv, ObjectsOK
  <2>3. Atomic!Called
    BY <1>1 DEF EnsureCalled, IInv, TypeOK, Atomic!Called, Atomic!NoCall, NoCall,
       Atomic!Calls, Calls, Atomic!Kinds, Atomic!LoadBalancer, Atomic!Member, objectVars
  <2> QED
    BY <2>1, <2>2, <2>3, Frame DEF AtomicStep, Atomic!Next
<1>2. ASSUME NEW k \in Kinds, ReleaseCalled(k)
      PROVE  IOther /\ AtomicStep
  <2>1. CallOK' /\ Timely' /\ cleaning' \subseteq bogus' /\ UNCHANGED <<known, saved>>
    <3>1. clock = 0
      BY <1>2 DEF ReleaseCalled, IInv, Timely
    <3> QED
      BY <1>2, <3>1, TimeAssumption
         DEF ReleaseCalled, CallOK, Timely, IInv, TypeOK, PoolsApart, objectVars
  <2>2. ObjectsKept
    BY <1>2, UnchangedKept DEF ReleaseCalled, IInv, ObjectsOK
  <2>3. Atomic!Called
    BY <1>2 DEF ReleaseCalled, IInv, TypeOK, Atomic!Called, Atomic!NoCall, NoCall,
       Atomic!Calls, Calls, Atomic!Kinds, Atomic!LoadBalancer, Atomic!Member, objectVars
  <2> QED
    BY <2>1, <2>2, <2>3, Frame DEF AtomicStep, Atomic!Next
<1>3. CASE Annotate
  <2>1. IOther
    BY <1>3 DEF Annotate, IOther, IInv, ChainsOK, PoolsApart, StatusOK, CallOK,
       Timely, objectVars, callVars
  <2>2. Atomic!Annotated
    BY <1>3 DEF Annotate, IInv, TypeOK, Atomic!Annotated, Atomic!NoCall, NoCall,
       Atomic!LoadBalancer, objectVars, callVars
  <2> QED
    BY <2>1, <2>2 DEF AtomicStep, Atomic!Next
<1> QED
  BY <1>1, <1>2, <1>3

LEMMA NeutronStep ==
    ASSUME IInv, Provisioned \/ Vanished \/ OthersAct
    PROVE  IOther /\ AtomicStep
<1>0. UNCHANGED <<known, saved, callVars>>
  BY DEF Provisioned, Vanished, OthersAct
<1>1. SUFFICES ObjectsKept /\ bogus \subseteq bogus' /\ AtomicStep
  <2>1. CallOK' /\ Timely'
    BY <1>0 DEF IInv, CallOK, Timely, callVars
  <2> QED
    BY <1>0, <1>1, <2>1, Frame DEF IInv, PoolsApart, callVars
<1>2. CASE Provisioned
  BY <1>2 DEF Provisioned, ObjectsKept, IInv, ChainsOK, PoolsApart, AtomicStep,
     Atomic!vars, callVars
<1>3. CASE Vanished
  <2>1. ObjectsKept
    BY <1>3, EmptyChain, IdAssumption DEF Vanished, ObjectsKept, IInv, TypeOK, Empty
  <2>2. Atomic!Lost
    BY <1>3 DEF Vanished, Atomic!Lost, Atomic!Empty, Empty, Atomic!Kinds,
       Atomic!LoadBalancer, Atomic!Member, callVars
  <2> QED
    BY <1>3, <2>1, <2>2 DEF Vanished, AtomicStep, Atomic!Next
<1>4. CASE OthersAct
  <2>1. ~Busy
    BY <1>4 DEF OthersAct
  <2>2. CASE status' = "PENDING" /\ UNCHANGED <<neutron, bogus>>
    BY <1>0, <2>1, <2>2 DEF Busy, ObjectsKept, IInv, ChainsOK, PoolsApart,
       AtomicStep, Atomic!vars, callVars
  <2>3. ASSUME NEW k \in Kinds, neutron[k] # 0, Delete(k)
        PROVE  ObjectsKept /\ bogus \subseteq bogus' /\ AtomicStep
    <3>1. Atomic!Lost
      BY <1>0, <2>1, <2>3, DeleteMaps
         DEF Atomic!Lost, Atomic!Kinds, Atomic!LoadBalancer, Atomic!Member, callVars
    <3> QED
      BY <2>3, <3>1, DeleteKept DEF IInv, ObjectsOK, Delete, AtomicStep, Atomic!Next
  <2> QED
    BY <1>4, <2>2, <2>3 DEF OthersAct
<1> QED
  BY <1>2, <1>3, <1>4

LEMMA FailStep ==
    ASSUME IInv, Fails
    PROVE  IOther /\ AtomicStep
<1>0. Raises /\ saved' = saved
  BY DEF Fails
<1>1. CASE UNCHANGED objectVars
  BY <1>0, <1>1, RaiseStep DEF AtomicStep, Atomic!Next
<1>2. SUFFICES ASSUME ~UNCHANGED objectVars
               PROVE  ObjectsKept /\ Atomic!Failed
  BY <1>0, <1>1, <1>2, Frame DEF Raises, AtomicStep, Atomic!Next
<1>3. call' = NoCall /\ known' = saved
  BY <1>0, IdleOK DEF Raises
<1>4. CASE pc = "create" /\ MayCreate(call.kind) /\ Create(call.kind)
  <2>1. /\ call.kind \in Kinds /\ call.op = "ensure"
        /\ call.kind # LoadBalancer => known[call.kind - 1] # 0
    BY <1>4 DEF IInv, TypeOK, CallOK, Calls
  <2>2. ObjectsKept /\ Atomic!Created(call.kind)
    BY <1>4, <2>1, CreateKept, CreateMaps DEF IInv, ObjectsOK
  <2> QED
    BY <1>0, <1>3, <2>1, <2>2
       DEF Atomic!Failed, Atomic!NoCall, NoCall, Atomic!LoadBalancer
<1>5. CASE pc = "delete" /\ MayDelete(call.kind) /\ Delete(call.kind)
  <2>1. /\ call.kind \in Kinds /\ call.op = "release" /\ ~Busy
        /\ neutron[call.kind] = known[call.kind] /\ known[call.kind] # 0
    BY <1>5 DEF IInv, TypeOK, CallOK, Calls, MayDelete
  <2>2. ObjectsKept /\ Atomic!Deleted(call.kind)
    BY <1>5, <2>1, DeleteKept, DeleteMaps DEF IInv, ObjectsOK
  <2> QED
    BY <1>0, <1>3, <2>1, <2>2
       DEF Atomic!Failed, Atomic!NoCall, NoCall, Atomic!LoadBalancer
<1>6. CASE pc = "clean" /\ ~Busy /\ \E p \in cleaning : DeletePool(p)
  <2>1. ObjectsKept /\ neutron' = neutron /\ status' = "PENDING" /\ status = "ACTIVE"
    BY <1>6, DeletePoolKept DEF IInv, ObjectsOK
  <2> QED
    BY <1>0, <1>3, <2>1
       DEF Atomic!Failed, Atomic!NoCall, NoCall, Atomic!LoadBalancer
<1> QED
  BY <1>2, <1>4, <1>5, <1>6 DEF Fails

LEMMA Step ==
    ASSUME IInv, [Next]_vars
    PROVE  IInv' /\ AtomicStep
<1>1. TypeOK'
  BY StepTypes DEF IInv
<1>2. CASE UNCHANGED vars
  BY <1>1, <1>2 DEF vars, IInv, ChainsOK, PoolsApart, StatusOK, CallOK, Timely,
     AtomicStep, Atomic!vars
<1>3. CASE Next
  <2>1. IOther /\ AtomicStep
    BY <1>3, DriverStep, HandlerStep, NeutronStep, FailStep DEF Next
  <2> QED
    BY <1>1, <2>1 DEF IOther, IInv
<1> QED
  BY <1>2, <1>3

LEMMA Start == Init => IInv /\ Atomic!Init
<1> SUFFICES ASSUME Init
             PROVE  IInv /\ Atomic!Init
  OBVIOUS
<1>1. TypeOK
  BY DEF Init, TypeOK, Empty, Chains
<1>2. ChainsOK /\ PoolsApart /\ StatusOK
  BY DEF Init, Empty, ChainsOK, Chained, Lineage, Others, PoolsApart, StatusOK
<1>3. CallOK /\ Timely
  BY DEF Init, CallOK, Timely, NoCall
<1>4. Atomic!Init
  BY DEF Init, Atomic!Init, Atomic!Empty, Empty, Atomic!NoCall, NoCall,
     Atomic!Kinds, Atomic!LoadBalancer, Atomic!Member
<1> QED
  BY <1>1, <1>2, <1>3, <1>4 DEF IInv

\* The inductive invariant: the objects that are known, annotated and there are
\* lines of one another, and a call has time left at each of its requests.
THEOREM Invariant == Spec => []IInv
<1>1. IInv /\ [Next]_vars => IInv'
  BY Step
<1> QED
  BY <1>1, Start, PTL DEF Spec

\* No request that looks at or changes the load balancer is made later than
\* the limit and the length of one request, whatever these are.
THEOREM RequestsTimely == Spec => []NoLateRequest
<1>1. IInv => NoLateRequest
  BY TimeAssumption DEF IInv, TypeOK, Timely, NoLateRequest
<1> QED
  BY <1>1, Invariant, PTL

\* A call of the driver is one step or none of LBaaSCalls, for any time
\* limits and ids, however often requests fail and others interfere.
THEOREM CallsAreAtomic == Spec => CallsAtomic
<1>1. Init => Atomic!Init
  BY Start
<1>2. IInv /\ [Next]_vars => [Atomic!Next]_(Atomic!vars)
  BY Step DEF AtomicStep
<1> QED
  BY <1>1, <1>2, Invariant, PTL DEF Spec, CallsAtomic, Atomic!Spec

-----------------------------------------------------------------------------
(***************************************************************************)
(* Bogus pools.  The driver makes one only when the load balancer became   *)
(* busy after it was shown as active, which is somebody else's doing       *)
(* (RoomForOne).  And it never makes one by deleting a listener whose pool *)
(* it knows nothing about: what it released is gone (Remade), a listener   *)
(* that is annotated has no pool but the annotated one (OnePool, Whole),   *)
(* and only annotated objects are released (CallPools).                    *)
(***************************************************************************)

Remade == \A k \in {Listener, Pool} :
             saved[k] # 0 /\ known[k] = 0 => neutron[k] # saved[k]

OnePool(c, n) == c[Listener] # 0 /\ c[Listener] = n[Listener] /\ c[Pool] # 0
                   => n[Pool] \in {0, c[Pool]}

Whole == (saved[Listener] = 0) = (saved[Pool] = 0)

CallPools ==
    /\ call.op = "release" => \A j \in Kinds : known[j] \in {0, saved[j]}
    /\ call.op = "ensure" => known[call.kind] = 0
    /\ call.op = "ensure" /\ call.kind = Pool =>
         saved[Pool] = 0 \/ known[Listener] # saved[Listener]

Pools == /\ Remade /\ Whole /\ CallPools
         /\ OnePool(known, neutron) /\ OnePool(saved, neutron)

\* The last request before a bogus pool.
Exposed == pc = "create" /\ call.kind = Pool /\ ParentThere(Pool) /\ Busy

RoomForOne == Exposed => Cardinality(bogus) < others + faults

Room == IsFiniteSet(bogus) /\ FewBogusPools /\ RoomForOne

-----------------------------------------------------------------------------
(* What a step does to the objects, and to what is known of them.           *)

New(k) == /\ neutron'[k] \in NewIds(k) /\ ParentThere(k)
          /\ call.op = "ensure" /\ call.kind = k /\ k \in Kinds

LEMMA CutMoves ==
    ASSUME NEW n, NEW k \in Kinds, NEW j \in Kinds
    PROVE  Cut(n, k)[j] \in {n[j], 0}
BY DEF Cut

LEMMA CreateMoves ==
    ASSUME IInv, NEW k \in Kinds, MayCreate(k), Create(k),
           call.op = "ensure", call.kind = k, NEW j \in Kinds
    PROVE  neutron'[j] = neutron[j] \/ New(j)
BY NewIdFresh DEF MayCreate, Create, New, IInv, TypeOK, Chains

LEMMA DeleteMoves ==
    ASSUME NEW k \in Kinds, Delete(k), NEW j \in Kinds
    PROVE  neutron'[j] \in {neutron[j], 0}
BY CutMoves DEF Delete

LEMMA FailMoves ==
    ASSUME IInv, Fails, NEW j \in Kinds
    PROVE  neutron'[j] \in {neutron[j], 0} \/ New(j)
<1>1. CASE UNCHANGED objectVars
  BY <1>1 DEF objectVars
<1>2. CASE pc = "create" /\ MayCreate(call.kind) /\ Create(call.kind)
  BY <1>2, CreateMoves DEF IInv, TypeOK, CallOK, Calls
<1>3. CASE pc = "delete" /\ MayDelete(call.kind) /\ Delete(call.kind)
  BY <1>3, DeleteMoves DEF IInv, TypeOK, Calls
<1>4. CASE pc = "clean" /\ ~Busy /\ \E p \in cleaning : DeletePool(p)
  BY <1>4, CutMoves DEF DeletePool
<1> QED
  BY <1>1, <1>2, <1>3, <1>4 DEF Fails

LEMMA ObjectsMove ==
    ASSUME IInv, [Next]_vars, NEW j \in Kinds
    PROVE  neutron'[j] \in {neutron[j], 0} \/ New(j)
<1>1. CASE Attempting
  BY <1>1, AttemptObjects DEF Continues
<1>2. CASE CreateOk
  BY <1>2, CreateMoves DEF CreateOk, IInv, TypeOK, CallOK, Calls
<1>3. CASE DeleteOk
  BY <1>3, DeleteMoves DEF DeleteOk, IInv, TypeOK, Calls
<1>4. CASE Vanished
  BY <1>4 DEF Vanished, Empty
<1>5. CASE OthersAct
  BY <1>5, DeleteMoves DEF OthersAct
<1>6. CASE Fails
  BY <1>6, FailMoves
<1>7. CASE neutron' = neutron
  BY <1>7
<1> QED
  BY <1>1, <1>2, <1>3, <1>4, <1>5, <1>6, <1>7
     DEF Next, Driver, Attempting, Waiting, LooksAgain, ShowNotFound, WaitExpires,
         PauseExpires, CreateNotFound, Find, FindNone, DeleteNotFound,
         EnsureCalled, ReleaseCalled, Annotate, Provisioned, objectVars, vars

\* A call that ensured or released its object.
Got  == /\ call.op = "ensure" /\ call.kind \in Kinds
        /\ known' = [known EXCEPT ![call.kind] = neutron'[call.kind]]
Lost == /\ call.op = "release" /\ call.kind \in Kinds
        /\ known' = [known EXCEPT ![call.kind] = 0]
        /\ call.kind # LoadBalancer => neutron'[call.kind] # known[call.kind]

LEMMA KnownMoves ==
    ASSUME IInv, [Next]_vars
    PROVE  \/ Annotate
           \/ saved' = saved /\ (known' \in {known, saved} \/ Got \/ Lost)
<1>0. Annotate \/ saved' = saved
  BY DEF Next, Driver, Fails, EnsureCalled, ReleaseCalled, Provisioned, Vanished,
         OthersAct, vars
<1>1. CASE Attempting
  BY <1>0, <1>1, AttemptObjects DEF Continues
<1>2. CASE CreateOk
  <2>1. call.kind \in Kinds /\ call.op = "ensure"
    BY <1>2 DEF CreateOk, IInv, TypeOK, CallOK, Calls
  <2>2. neutron'[call.kind] = NewId(call.kind)
    BY <1>2, <2>1, CreateKept DEF CreateOk, IInv, ObjectsOK, CallOK
  <2> QED
    BY <1>0, <1>2, <2>1, <2>2 DEF CreateOk, Returns, Got
<1>3. CASE Find
  BY <1>0, <1>3 DEF Find, Found, Returns, Got, objectVars, IInv, TypeOK, CallOK, Calls
<1>4. CASE DeleteOk
  <2>1. call.kind \in Kinds /\ call.op = "release" /\ known[call.kind] # 0
    BY <1>4 DEF DeleteOk, IInv, TypeOK, CallOK, Calls
  <2>2. call.kind # LoadBalancer => neutron'[call.kind] = 0
    BY <1>4, <2>1 DEF DeleteOk, Delete, Cut
  <2> QED
    BY <1>0, <1>4, <2>1, <2>2 DEF DeleteOk, Returns, Lost
<1>5. CASE DeleteNotFound \/ (ShowNotFound /\ call.op = "release" /\ Returns(0))
  <2>1. /\ UNCHANGED objectVars /\ Returns(0) /\ call.op = "release"
        /\ call.kind \in Kinds
    BY <1>5 DEF DeleteNotFound, ShowNotFound, IInv, TypeOK, CallOK, Calls
  <2>2. neutron[call.kind] # known[call.kind]
    BY <1>5, <2>1, NothingWithoutIt DEF DeleteNotFound, ShowNotFound, IInv, CallOK
  <2> QED
    BY <1>0, <2>1, <2>2 DEF Returns, Lost, objectVars
<1>6. CASE Raises
  BY <1>0, <1>6 DEF Raises
<1>7. CASE known' = known
  BY <1>0, <1>7
<1> QED
  BY <1>1, <1>2, <1>3, <1>4, <1>5, <1>6, <1>7
     DEF Next, Driver, Attempting, Waiting, LooksAgain, ShowNotFound, WaitExpires,
         PauseExpires, CreateNotFound, FindNone, Fails, Annotate,
         EnsureCalled, ReleaseCalled, Provisioned, Vanished, OthersAct, vars

LEMMA CallMoves ==
    ASSUME IInv, [Next]_vars
    PROVE  \/ call' = NoCall
           \/ UNCHANGED <<call, known, saved>>
           \/ \E k \in Kinds : EnsureCalled(k) \/ ReleaseCalled(k)
<1>1. CASE Attempting /\ saved' = saved
  BY <1>1, AttemptObjects DEF Continues
<1>2. CASE Annotate
  BY <1>2 DEF Annotate, IInv, TypeOK, callVars
<1>3. Idle => call' = NoCall
  BY DEF Idle
<1> QED
  BY <1>1, <1>2, <1>3
     DEF Next, Driver, Attempting, Waiting, LooksAgain, ShowNotFound, WaitExpires,
         PauseExpires, CreateOk, CreateNotFound, Find, FindNone, DeleteOk,
         DeleteNotFound, Fails, Returns, Raises, Provisioned, Vanished, OthersAct,
         callVars, vars

-----------------------------------------------------------------------------
(* The pools that are known, annotated and there.                           *)

LEMMA RemadeStep ==
    ASSUME IInv, Pools, [Next]_vars
    PROVE  Remade'
<1> SUFFICES ASSUME NEW k \in {Listener, Pool}, saved'[k] # 0, known'[k] = 0
             PROVE  neutron'[k] # saved'[k]
  BY DEF Remade
<1>0. known \in Chains
  BY DEF IInv, TypeOK
<1>1. CASE Annotate
  BY <1>1 DEF Annotate
<1>2. CASE ~Annotate
  <2>1. saved' = saved /\ (known' \in {known, saved} \/ Got \/ Lost)
    BY <1>2, KnownMoves
  <2>2. CASE known[k] = 0
    BY <2>1, <2>2, ObjectsMove DEF Pools, Remade, New, NewIds
  <2>3. CASE known[k] # 0 /\ Got
    BY <1>0, <2>1, <2>3 DEF Got, Chains
  <2>4. CASE known[k] # 0 /\ Lost
    <3>1. k = call.kind /\ known[k] = saved[k]
      BY <1>0, <2>4 DEF Lost, Chains, Pools, CallPools
    <3> QED
      BY <2>1, <2>4, <3>1 DEF Lost
  <2> QED
    BY <2>1, <2>2, <2>3, <2>4
<1> QED
  BY <1>1, <1>2

\* A new listener is not one that is known already.
LEMMA SameListener ==
    ASSUME IInv, Pools, [Next]_vars, NEW c \in {known, saved},
           c[Listener] # 0, c[Listener] = neutron'[Listener]
    PROVE  neutron'[Listener] = neutron[Listener]
BY ObjectsMove DEF New, NewIds

\* A new pool belongs to a listener that is not annotated.
LEMMA NewPoolUnknown ==
    ASSUME IInv, Pools, New(Pool)
    PROVE  /\ known[Pool] = 0
           /\ saved[Pool] # 0 => saved[Listener] # neutron[Listener]
BY DEF New, ParentThere, Pools, CallPools

LEMMA OnePoolMoves ==
    ASSUME IInv, Pools, [Next]_vars, NEW c \in {known, saved}
    PROVE  OnePool(c, neutron')
<1> SUFFICES ASSUME c[Listener] # 0, c[Listener] = neutron'[Listener], c[Pool] # 0
             PROVE  neutron'[Pool] \in {0, c[Pool]}
  BY DEF OnePool
<1>1. neutron'[Listener] = neutron[Listener]
  BY SameListener
<1>2. neutron'[Pool] \in {neutron[Pool], 0} \/ New(Pool)
  BY ObjectsMove
<1> QED
  BY <1>1, <1>2, NewPoolUnknown DEF Pools, OnePool

LEMMA OnePoolStep ==
    ASSUME IInv, Pools, [Next]_vars
    PROVE  OnePool(known, neutron)' /\ OnePool(saved, neutron)'
<1>0. known \in Chains
  BY DEF IInv, TypeOK
<1>1. OnePool(known, neutron') /\ OnePool(saved, neutron')
  BY OnePoolMoves
<1>2. CASE Annotate
  BY <1>1, <1>2 DEF Annotate, OnePool
<1>3. CASE saved' = saved /\ known' \in {known, saved}
  BY <1>1, <1>3 DEF OnePool
<1>4. CASE saved' = saved /\ Got
  <2>1. known[call.kind] = 0 /\ (call.kind = Listener => known[Pool] = 0)
    BY <1>4 DEF Got, Pools, CallPools, IInv, ChainsOK, Chained, Others
  <2> QED
    BY <1>0, <1>1, <1>4, <2>1 DEF Got, OnePool, Chains
<1>5. CASE saved' = saved /\ Lost
  BY <1>0, <1>1, <1>5 DEF Lost, OnePool, Chains
<1> QED
  BY <1>2, <1>3, <1>4, <1>5, KnownMoves

LEMMA CallPoolsStep ==
    ASSUME IInv, Pools, [Next]_vars
    PROVE  CallPools'
<1>1. CASE call' = NoCall
  BY <1>1 DEF NoCall, CallPools
<1>2. CASE UNCHANGED <<call, known, saved>>
  BY <1>2 DEF Pools, CallPools
<1>3. ASSUME NEW k \in Kinds, EnsureCalled(k) \/ ReleaseCalled(k)
      PROVE  CallPools'
  BY <1>3 DEF EnsureCalled, ReleaseCalled, CallPools
<1> QED
  BY <1>1, <1>2, <1>3, CallMoves

LEMMA PoolsStep ==
    ASSUME IInv, Pools, [Next]_vars
    PROVE  Pools'
<1>1. Whole'
  BY KnownMoves DEF Annotate, Pools, Whole
<1> QED
  BY <1>1, RemadeStep, OnePoolStep, CallPoolsStep DEF Pools

-----------------------------------------------------------------------------
(* Their number.                                                            *)

LEMMA OneMore ==
    ASSUME NEW S, IsFiniteSet(S), NEW x
    PROVE  /\ IsFiniteSet(S \cup {x}) /\ IsFiniteSet(S \ {x})
           /\ Cardinality(S) \in Nat
           /\ Cardinality(S \cup {x}) \in Nat
           /\ Cardinality(S \cup {x}) <= Cardinality(S) + 1
           /\ Cardinality(S \ {x}) \in Nat
           /\ Cardinality(S \ {x}) <= Cardinality(S)
<1>1. IsFiniteSet(S \cup {x}) /\ IsFiniteSet(S \ {x})
  BY FS_AddElement, FS_RemoveElement
<1>2. /\ Cardinality(S) \in Nat /\ Cardinality(S \cup {x}) \in Nat
      /\ Cardinality(S \ {x}) \in Nat
  BY <1>1, FS_CardinalityType
<1>3. Cardinality(S \cup {x}) <= Cardinality(S) + 1
  <2>1. CASE x \in S
    <3>1. S \cup {x} = S
      BY <2>1
    <3> QED
      BY <1>2, <3>1
  <2>2. CASE x \notin S
    BY <1>2, <2>2, FS_AddElement
  <2> QED
    BY <2>1, <2>2
<1>4. Cardinality(S \ {x}) <= Cardinality(S)
  BY <1>2, FS_Subset
<1> QED
  BY <1>1, <1>2, <1>3, <1>4

\* The driver only deletes a listener that has lost its pool.
LEMMA OwnDelete ==
    ASSUME IInv, Pools, call.op = "release", pc # "idle",
           MayDelete(call.kind), Delete(call.kind)
    PROVE  bogus' = bogus
<1>1. call.kind \in Kinds
  BY DEF IInv, TypeOK, Calls
<1>2. CASE call.kind = Listener
  <2>1. /\ known[Listener] # 0 /\ known[Pool] = 0 /\ neutron[Listener] = known[Listener]
        /\ saved[Listener] = known[Listener]
    BY <1>2 DEF MayDelete, Pools, CallPools, IInv, CallOK
  <2>2. neutron[Pool] = 0
    BY <2>1 DEF Pools, Whole, Remade, OnePool
  <2> QED
    BY <1>2, <2>2 DEF Delete
<1> QED
  BY <1>1, <1>2 DEF Delete

\* Pools that lose their listener are somebody else's doing, and so is a load
\* balancer that refuses a pool.
LEMMA BogusMoves ==
    ASSUME IInv, Pools, [Next]_vars
    PROVE  \/ /\ bogus' = bogus \/ \E p : bogus' = bogus \ {p}
              /\ others' \in {others, others + 1} /\ faults' \in {faults, faults + 1}
           \/ /\ \E p : bogus' = bogus \cup {p}
              /\ \/ Exposed /\ pc' # "create" /\ UNCHANGED <<others, faults>>
                 \/ OthersAct
<1>1. CASE CreateRefused /\ UNCHANGED <<others, faults>>
  BY <1>1 DEF CreateRefused, Goes, Exposed
<1>2. CASE Clean /\ UNCHANGED <<others, faults>>
  <2>1. bogus' = bogus \/ \E p : bogus' = bogus \ {p}
    BY <1>2 DEF Clean, DeletePool, objectVars
  <2> QED
    BY <1>2, <2>1
<1>3. CASE DeleteOk /\ UNCHANGED <<others, faults>>
  <2>1. bogus' = bogus
    BY <1>3, OwnDelete DEF DeleteOk, IInv, CallOK
  <2> QED
    BY <1>3, <2>1
<1>4. CASE OthersAct
  <2>1. bogus' = bogus \/ bogus' = bogus \cup {neutron[Pool]}
    BY <1>4 DEF OthersAct, Delete
  <2>2. others' = others + 1 /\ faults' = faults
    BY <1>4 DEF OthersAct
  <2> QED
    BY <1>4, <2>1, <2>2
<1>5. CASE Fails
  <2>1. pc = "delete" /\ MayDelete(call.kind) /\ Delete(call.kind)
           => bogus' = bogus
    BY OwnDelete DEF IInv, CallOK
  <2>2. CASE \E p \in cleaning : DeletePool(p)
    BY <1>5, <2>2 DEF Fails, DeletePool
  <2>3. CASE UNCHANGED objectVars
    BY <1>5, <2>3 DEF Fails, objectVars
  <2>4. CASE Create(call.kind)
    BY <1>5, <2>4 DEF Fails, Create
  <2>5. CASE pc = "delete" /\ MayDelete(call.kind) /\ Delete(call.kind)
    BY <1>5, <2>1, <2>5 DEF Fails
  <2> QED
    BY <1>5, <2>2, <2>3, <2>4, <2>5 DEF Fails
<1>6. CASE UNCHANGED <<bogus, others, faults>>
  BY <1>6
<1> QED
  BY <1>1, <1>2, <1>3, <1>4, <1>5, <1>6
     DEF Next, Driver, ShowActive, ShowBusy, ShowNotFound, Wait, WaitExpires, Pause,
         PauseExpires, CreateOk, Create, CreateNotFound, CreateConflict, Find, FindNone,
         ListBogus, DeleteNotFound, DeleteRefused, EnsureCalled, ReleaseCalled,
         Annotate, Provisioned, Vanished, objectVars, vars

\* Who makes the load balancer busy before a pool is created.
LEMMA ExposedMoves ==
    ASSUME IInv, [Next]_vars, Exposed'
    PROVE  \/ Exposed /\ UNCHANGED <<bogus, others, faults>>
           \/ bogus' = bogus /\ others' = others + 1 /\ faults' = faults
<1>1. CASE OthersAct
  <2>1. UNCHANGED <<known, pc, call, faults>> /\ others' = others + 1
    BY <1>1 DEF OthersAct, callVars
  <2>2. known'[Listener] # 0 /\ neutron'[Listener] # 0
    BY <2>1 DEF Exposed, ParentThere, IInv, CallOK
  <2>3. ASSUME NEW k \in Kinds, Delete(k)
        PROVE  bogus' = bogus
    BY <2>2, <2>3 DEF Delete, Cut
  <2> QED
    BY <1>1, <2>1, <2>3 DEF OthersAct
<1>2. ~Provisioned /\ ~ShowActive
  BY DEF Provisioned, ShowActive, Exposed, Busy, objectVars
<1>3. ~Vanished
  BY DEF Vanished, Exposed, Empty, ParentThere, IInv, CallOK, callVars
<1>4. \A k \in Kinds : ~EnsureCalled(k)
  BY DEF EnsureCalled, Exposed
<1>5. CASE UNCHANGED vars
  BY <1>5 DEF vars, Exposed, ParentThere, Busy
<1> QED
  BY <1>1, <1>2, <1>3, <1>4, <1>5
     DEF Next, Driver, ShowBusy, ShowNotFound, Wait, WaitExpires, Pause,
         PauseExpires, CreateOk, CreateNotFound, CreateConflict, CreateRefused,
         Find, FindNone, ListBogus, Clean, DeleteOk, DeleteNotFound, DeleteRefused,
         ReleaseCalled, Annotate, Fails, Returns, Raises, Idle, Goes, Exposed, callVars

LEMMA RoomStep ==
    ASSUME IInv, Pools, Room, [Next]_vars
    PROVE  Room'
<1>0. IsFiniteSet(bogus) /\ Cardinality(bogus) <= others + faults
      /\ others \in Nat /\ faults \in Nat /\ Cardinality(bogus) \in Nat
  BY OneMore DEF Room, FewBogusPools, IInv, TypeOK
<1>1. others' \in Nat /\ faults' \in Nat
  BY StepTypes DEF IInv, TypeOK
<1>2. IsFiniteSet(bogus')
  <2>1. bogus' = bogus \/ \E p : bogus' = bogus \ {p} \/ bogus' = bogus \cup {p}
    BY BogusMoves
  <2> QED
    BY <1>0, <2>1, OneMore
<1>3. FewBogusPools'
  <2>1. CASE /\ bogus' = bogus \/ \E p : bogus' = bogus \ {p}
             /\ others' \in {others, others + 1} /\ faults' \in {faults, faults + 1}
    <3>1. Cardinality(bogus') \in Nat /\ Cardinality(bogus') <= Cardinality(bogus)
      <4>1. CASE bogus' = bogus
        BY <1>0, <4>1
      <4>2. ASSUME NEW p, bogus' = bogus \ {p}
            PROVE  /\ Cardinality(bogus') \in Nat
                   /\ Cardinality(bogus') <= Cardinality(bogus)
        BY <1>0, <4>2, OneMore, FS_CardinalityType
      <4> QED
        BY <2>1, <4>1, <4>2
    <3> QED
      BY <1>0, <2>1, <3>1 DEF FewBogusPools
  <2>2. ASSUME NEW p, bogus' = bogus \cup {p},
               \/ Exposed /\ pc' # "create" /\ UNCHANGED <<others, faults>>
               \/ OthersAct
        PROVE  FewBogusPools'
    <3>1. /\ Cardinality(bogus') \in Nat
          /\ Cardinality(bogus') <= Cardinality(bogus) + 1
      BY <1>0, <2>2, OneMore
    <3>2. CASE OthersAct
      <4>1. others' = others + 1 /\ faults' = faults
        BY <3>2 DEF OthersAct
      <4> QED
        BY <1>0, <3>1, <4>1 DEF FewBogusPools
    <3>3. CASE Exposed /\ UNCHANGED <<others, faults>>
      <4>1. Cardinality(bogus) < others + faults
        BY <3>3 DEF Room, RoomForOne
      <4> QED
        BY <1>0, <3>1, <3>3, <4>1 DEF FewBogusPools
    <3> QED
      BY <2>2, <3>2, <3>3
  <2> QED
    BY <2>1, <2>2, BogusMoves
<1>4. RoomForOne'
  <2> SUFFICES ASSUME Exposed'
               PROVE  Cardinality(bogus') < others' + faults'
    BY DEF RoomForOne
  <2>1. CASE Exposed /\ UNCHANGED <<bogus, others, faults>>
    BY <2>1 DEF Room, RoomForOne
  <2>2. CASE bogus' = bogus /\ others' = others + 1 /\ faults' = faults
    BY <1>0, <2>2
  <2> QED
    BY <2>1, <2>2, ExposedMoves
<1> QED
  BY <1>2, <1>3, <1>4 DEF Room

\* Bogus pools are never more than the times somebody else used or deleted
\* something between two requests of the driver, and the requests that failed:
\* the driver waits for its own changes, and does not delete a listener that
\* has a pool (_create_pool, _cleanup_bogus_pool, LoadBalancerHandler).
THEOREM BogusPoolsBounded == Spec => []FewBogusPools
<1>1. Init => Pools /\ Room
  <2>1. Init => IsFiniteSet(bogus) /\ Cardinality(bogus) = 0
    BY FS_EmptySet DEF Init
  <2> QED
    BY <2>1 DEF Init, Pools, Remade, OnePool, Whole, CallPools, NoCall, Empty, Room,
       FewBogusPools, RoomForOne, Exposed
<1>2. IInv /\ Pools /\ Room /\ [Next]_vars => (IInv /\ Pools /\ Room)'
  BY Step, PoolsStep, RoomStep
<1>3. Pools /\ Room => FewBogusPools
  BY DEF Room
<1> QED
  BY <1>1, <1>2, <1>3, Start, PTL DEF Spec
=============================================================================
