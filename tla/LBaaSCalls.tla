------------------------------ MODULE LBaaSCalls ------------------------------
(***************************************************************************)
(* What the handlers rely on when they call the LBaaS driver               *)
(* (LBaaSDriver, controller/drivers/base.py): a call that returns has      *)
(* ensured or released its one object at some moment, without a trace of   *)
(* the attempts before it; a call that raises an exception has done so or  *)
(* nothing at all.                                                         *)
(***************************************************************************)
EXTENDS LBaaSObjects

VARIABLES real,       \* the object of each kind that exists, 0 if none
          dying,      \* Neutron is deleting the load balancer
          known,      \* lbaas_state: the objects the handler works with
          saved,      \* lbaas_state as annotated
          call        \* the call in progress

vars == <<real, dying, known, saved, call>>

Init == /\ real = Empty /\ dying = FALSE
        /\ known = Empty /\ saved = Empty /\ call = NoCall

Created(k) ==
    /\ real[k] = 0
    /\ k # LoadBalancer => real[k - 1] = known[k - 1]
    /\ \E i \in Ids \ {known[k], saved[k]} : real' = [real EXCEPT ![k] = i]
    /\ UNCHANGED dying

\* The load balancer goes in two steps.
Deleted(k) ==
    /\ real[k] # 0
    /\ IF k = LoadBalancer THEN dying' = TRUE /\ UNCHANGED real
                           ELSE real' = Cut(real, k) /\ UNCHANGED dying

Called == /\ call = NoCall
          /\ \E c \in Calls : call' = c
          /\ UNCHANGED <<real, dying, known, saved>>

Annotated == /\ call = NoCall /\ saved' = known
             /\ UNCHANGED <<real, dying, known, call>>

Ensured ==
    /\ call.op = "ensure" /\ call' = NoCall
    /\ \/ Created(call.kind)
       \/ real[call.kind] # 0 /\ UNCHANGED <<real, dying>>
    /\ known' = [known EXCEPT ![call.kind] = real'[call.kind]]
    /\ UNCHANGED saved

Released ==
    /\ call.op = "release" /\ call' = NoCall
    /\ \/ real[call.kind] = known[call.kind] /\ Deleted(call.kind)
       \/ real[call.kind] # known[call.kind] /\ UNCHANGED <<real, dying>>
    /\ known' = [known EXCEPT ![call.kind] = 0]
    /\ UNCHANGED saved

\* An exception, or a restart: what the handler knows is what was annotated.
Failed ==
    /\ call' = NoCall /\ known' = saved
    /\ \/ call.op = "ensure" /\ Created(call.kind)
       \/ /\ call.op = "release" /\ real[call.kind] = known[call.kind]
          /\ Deleted(call.kind)
       \/ UNCHANGED <<real, dying>>
    /\ UNCHANGED saved

\* Others delete objects, and Neutron what it was asked to.
Lost ==
    /\ \/ \E k \in Kinds : Deleted(k)
       \/ dying /\ dying' = FALSE /\ real' = Empty
    /\ UNCHANGED <<known, saved, call>>

Next == Called \/ Annotated \/ Ensured \/ Released \/ Failed \/ Lost

Spec == Init /\ [][Next]_vars
=============================================================================
