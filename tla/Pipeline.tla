-------------------------------- MODULE Pipeline -------------------------------
(***************************************************************************)
(* What happens to one event on its way from Async to the handlers:        *)
(* EventPipeline and Dispatcher (handlers/dispatch.py) call every handler  *)
(* registered for the kind of the object, one after the other, each        *)
(* wrapped in LogExceptions and Retry as ControllerPipeline wraps it.      *)
(*                                                                         *)
(* Time is counted in seconds from the moment the event is dispatched.     *)
(***************************************************************************)
EXTENDS Integers

CONSTANTS Handlers, Kinds, NoHandler,
          Timeout,   \* Retry's timeout
          Interval,  \* Retry's interval
          MaxRun,    \* bound: how long a call of a handler takes
          MaxNow     \* bound of the clock, never reached

ASSUME HandlerAssumption == NoHandler \notin Handlers
ASSUME TimeAssumption == /\ Timeout \in Nat /\ Interval \in Nat \ {0}
                         /\ MaxRun \in Nat /\ MaxNow \in Nat

VARIABLES registry,  \* Dispatcher._registry, by object_kind
          pc,
          left,      \* handlers of the event that are still to be called
          current,   \* the handler that is called
          attempt, deadline,  \* of Retry
          failedAt,  \* when its last attempt failed
          now

eventVars == <<left, current, attempt, deadline, failedAt, now>>
vars == <<registry, pc, eventVars>>

TypeOK ==
    /\ registry \in [Kinds -> SUBSET Handlers]
    /\ pc \in {"idle", "next", "run", "failed"}
    /\ left \subseteq Handlers
    /\ current \in Handlers \cup {NoHandler}
    /\ attempt \in Nat /\ deadline \in Nat /\ failedAt \in Nat /\ now \in Nat
    /\ pc \in {"run", "failed"} => current \in Handlers /\ attempt > 0

NoEvent == /\ left = {} /\ current = NoHandler /\ attempt = 0
           /\ deadline = 0 /\ failedAt = 0 /\ now = 0

Init ==
    /\ registry = [k \in Kinds |-> {}]
    /\ pc = "idle" /\ NoEvent

Registered(h) == \E k \in Kinds : h \in registry[k]

\* EventPipeline.register: a wrapped handler is added for its kind.
Register(h, k) ==
    /\ pc = "idle" /\ ~Registered(h)
    /\ registry' = [registry EXCEPT ![k] = @ \cup {h}]
    /\ UNCHANGED <<pc, eventVars>>

\* Dispatcher.__call__ collects the handlers of the event's kind.
Dispatch(k) ==
    /\ pc = "idle"
    /\ pc' = "next" /\ left' = registry[k] /\ now' = 0
    /\ UNCHANGED <<registry, current, attempt, deadline, failedAt>>

\* Mutant: attempts are counted from 0.
Call_FromZero(h) ==
    /\ pc = "next" /\ h \in left
    /\ left' = left \ {h} /\ current' = h
    /\ attempt' = 0 /\ deadline' = now + Timeout
    /\ pc' = "run"
    /\ UNCHANGED <<registry, failedAt, now>>

\* The next handler, in no particular order; Retry sets its deadline.
Call(h) ==
    /\ pc = "next" /\ h \in left
    /\ left' = left \ {h} /\ current' = h
    /\ attempt' = 1 /\ deadline' = now + Timeout
    /\ pc' = "run"
    /\ UNCHANGED <<registry, failedAt, now>>

Returns(d) ==
    /\ pc = "run"
    /\ now' = now + d /\ pc' = "next"
    /\ UNCHANGED <<registry, left, current, attempt, deadline, failedAt>>

\* Mutant: an exception ends the loop over the handlers.
Raises_Through(d) ==
    /\ pc = "run"
    /\ now' = now + d /\ pc' = "next" /\ left' = {}
    /\ UNCHANGED <<registry, current, attempt, deadline, failedAt>>

\* Any exception but ResourceNotReady passes Retry; LogExceptions stops it.
Raises(d) ==
    /\ pc = "run"
    /\ now' = now + d /\ pc' = "next"
    /\ UNCHANGED <<registry, left, current, attempt, deadline, failedAt>>

NotReady(d) ==
    /\ pc = "run"
    /\ now' = now + d /\ failedAt' = now + d /\ pc' = "failed"
    /\ UNCHANGED <<registry, left, current, attempt, deadline>>

-----------------------------------------------------------------------------
(* Retry._sleep.                                                            *)

SecondsLeft == deadline - now

Expired == SecondsLeft <= 0

\* Mutant: the time left does not limit the interval.
Backoff_Uncapped(n) == n * Interval

\* Mutant: the interval is not raised to its minimum.
Backoff_NoFloor(n) ==
    IF n * Interval > SecondsLeft THEN SecondsLeft ELSE n * Interval

\* The random interval, limited by the time left, but never below Interval.
Backoff(n) ==
    LET wanted  == n * Interval
        limited == IF wanted > SecondsLeft THEN SecondsLeft ELSE wanted IN
    IF limited < Interval THEN Interval ELSE limited

\* Mutant: Retry calls itself again, with a deadline of its own.
Sleep_Again ==
    /\ pc = "failed" /\ ~Expired /\ now < MaxNow
    /\ now' = now + Backoff(1) /\ deadline' = now' + Timeout
    /\ attempt' = 1 /\ pc' = "run"
    /\ UNCHANGED <<registry, left, current, failedAt>>

Sleep ==
    /\ pc = "failed" /\ ~Expired /\ now < MaxNow
    /\ \E n \in 1..(2 ^ attempt - 1) : now' = now + Backoff(n)
    /\ attempt' = attempt + 1 /\ pc' = "run"
    /\ UNCHANGED <<registry, left, current, deadline, failedAt>>

\* The timeout has been exceeded: the exception goes to LogExceptions.
GiveUp ==
    /\ pc = "failed" /\ Expired
    /\ pc' = "next"
    /\ UNCHANGED <<registry, eventVars>>

Done ==
    /\ pc = "next" /\ left = {}
    /\ pc' = "idle"
    /\ left' = {} /\ current' = NoHandler /\ attempt' = 0
    /\ deadline' = 0 /\ failedAt' = 0 /\ now' = 0
    /\ UNCHANGED registry

-----------------------------------------------------------------------------
Handle ==
    \/ \E h \in Handlers : Call(h)
    \/ \E d \in 0..MaxRun : Returns(d) \/ Raises(d) \/ NotReady(d)
    \/ Sleep \/ GiveUp \/ Done

Next ==
    \/ \E h \in Handlers, k \in Kinds : Register(h, k)
    \/ \E k \in Kinds : Dispatch(k)
    \/ Handle

Spec == Init /\ [][Next]_vars

\* The thread of the event runs; nobody has to send an event.
FairSpec == Spec /\ WF_vars(Handle)

-----------------------------------------------------------------------------
(* Properties.                                                              *)

\* A retry starts at least Interval after the attempt that failed, also when
\* the deadline is near.
BackoffKept == pc = "run" /\ attempt > 1 => now >= failedAt + Interval

\* No attempt starts Interval or more past the deadline: the last sleep may
\* overrun it, but by less.
NoLateAttempt == pc = "run" => now < deadline + Interval

\* The handlers of an event are independent: each is called, whatever happened
\* to the others.
AllCalled == \A h \in Handlers : (pc = "next" /\ h \in left) ~> current = h

\* The thread gets back to the queue of its object.
PipelineReturns == pc # "idle" ~> pc = "idle"
=============================================================================
