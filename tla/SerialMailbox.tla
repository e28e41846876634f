---------------------------- MODULE SerialMailbox ----------------------------
(***************************************************************************)
(* What the event handlers of Kuryr-Kubernetes are promised about the      *)
(* events of one K8s object (a "group"): at most one event of a group is   *)
(* being handled at any time, an event is handled only after it arrived,   *)
(* and events are handled in their order of arrival.  An event may be      *)
(* skipped when a newer one of its group has arrived.                      *)
(*                                                                         *)
(* Events of a group are numbered 1, 2, ... in the order of their arrival. *)
(***************************************************************************)
EXTENDS Naturals

CONSTANT Groups

VARIABLES sent,     \* sent[g]: number of events of g that have arrived
          handled,  \* handled[g]: the last event of g handled to the end
          taking,   \* taking[g]: the event of g now in the handler, or 0
          open      \* FALSE once the service is being stopped

vars == <<sent, handled, taking, open>>

Init ==
    /\ sent    = [g \in Groups |-> 0]
    /\ handled = [g \in Groups |-> 0]
    /\ taking  = [g \in Groups |-> 0]
    /\ open    = TRUE

Arrive(g) ==
    /\ open
    /\ sent' = [sent EXCEPT ![g] = @ + 1]
    /\ UNCHANGED <<handled, taking, open>>

\* The handler starts on some event newer than everything handled so far.
Begin(g) ==
    /\ taking[g] = 0
    /\ \E n \in (handled[g] + 1)..sent[g] :
          taking' = [taking EXCEPT ![g] = n]
    /\ UNCHANGED <<sent, handled, open>>

End(g) ==
    /\ taking[g] # 0
    /\ handled' = [handled EXCEPT ![g] = taking[g]]
    /\ taking'  = [taking EXCEPT ![g] = 0]
    /\ UNCHANGED <<sent, open>>

Close ==
    /\ open' = FALSE
    /\ UNCHANGED <<sent, handled, taking>>

\* Only a service that is being stopped may interrupt a handler.
Abort(g) ==
    /\ ~open
    /\ taking' = [taking EXCEPT ![g] = 0]
    /\ UNCHANGED <<sent, handled, open>>

Next ==
    \/ Close
    \/ \E g \in Groups : Arrive(g) \/ Begin(g) \/ End(g) \/ Abort(g)

Spec == Init /\ [][Next]_vars
=============================================================================
