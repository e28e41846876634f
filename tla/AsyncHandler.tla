---------------------------- MODULE AsyncHandler -----------------------------
(***************************************************************************)
(* handlers/asynchronous.py: the Async decorator that every controller     *)
(* handler is behind.  The watcher loops call Async with the events of the *)
(* K8s objects; Async keeps a registry (`_queues`) with one bounded queue  *)
(* per object, each drained by a green thread of its own that is started   *)
(* by the first event and ends after a grace period without events.        *)
(*                                                                         *)
(* Threads are eventlet green threads: an action is the code between two   *)
(* points that may yield (queue.get, queue.put, time.sleep, the handler,   *)
(* the wait of a nested _run).  The thread pool is the service's thread    *)
(* group: `Threads' are the places in it that the watchers leave free.     *)
(***************************************************************************)
EXTENDS Naturals, Sequences

CONSTANTS Watchers,    \* the watcher loops that call Async
          Groups,      \* K8s objects: the results of group_by(event)
          Stream,      \* Stream[g]: the watcher that delivers g's events
          Threads,     \* free places of the thread pool
          QueueDepth,  \* queue_depth
          MaxEvents,   \* bound of the model: events delivered per group
          NoThread, NoGroup

ASSUME StreamAssumption   == Stream \in [Groups -> Watchers]
ASSUME DepthAssumption    == QueueDepth \in Nat \ {0}
ASSUME NoThreadAssumption == NoThread \notin Threads
ASSUME NoGroupAssumption  == NoGroup \notin Groups

VARIABLES queues,    \* the registry: the thread draining g's queue, or NoThread
          pc,        \* where each thread is
          serves,    \* the group each thread was started for
          buf,       \* the queue each thread drains
          event,     \* the event each thread has taken from its queue
          putting,   \* the thread on whose full queue a watcher is blocked
          inline,    \* the group whose _run a watcher runs itself
          sent,      \* number of events of g passed to Async
          handled,   \* the last event of g for which the handler returned
          lost,      \* the last event of g put in a queue nobody drains, or 0
          stopping   \* thread_group.stop() has begun

vars == <<queues, pc, serves, buf, event, putting, inline, sent, handled,
          lost, stopping>>

threadVars == <<pc, serves, buf, event>>

TypeOK ==
    /\ queues   \in [Groups -> Threads \cup {NoThread}]
    /\ pc       \in [Threads -> {"free", "get", "stale", "handle"}]
    /\ serves   \in [Threads -> Groups \cup {NoGroup}]
    /\ buf      \in [Threads -> Seq(Nat)]
    /\ \A t \in Threads : Len(buf[t]) <= QueueDepth
    /\ event    \in [Threads -> Nat]
    /\ putting  \in [Watchers -> Threads \cup {NoThread}]
    /\ inline   \in [Watchers -> Groups \cup {NoGroup}]
    /\ sent     \in [Groups -> Nat]
    /\ handled  \in [Groups -> Nat]
    /\ lost     \in [Groups -> Nat]
    /\ stopping \in BOOLEAN

Init ==
    /\ queues   = [g \in Groups |-> NoThread]
    /\ pc       = [t \in Threads |-> "free"]
    /\ serves   = [t \in Threads |-> NoGroup]
    /\ buf      = [t \in Threads |-> <<>>]
    /\ event    = [t \in Threads |-> 0]
    /\ putting  = [w \in Watchers |-> NoThread]
    /\ inline   = [w \in Watchers |-> NoGroup]
    /\ sent     = [g \in Groups |-> 0]
    /\ handled  = [g \in Groups |-> 0]
    /\ lost     = [g \in Groups |-> 0]
    /\ stopping = FALSE

-----------------------------------------------------------------------------
(* Async.__call__, run by a watcher loop.                                   *)

\* The watcher of g is at its next event, which is one of g.
Calling(g) ==
    /\ ~stopping
    /\ putting[Stream[g]] = NoThread
    /\ inline[Stream[g]] = NoGroup
    /\ sent[g] < MaxEvents

Empty(t)      == buf[t] = <<>>
Full(t)       == Len(buf[t]) >= QueueDepth
PutBlocked(t) == \E w \in Watchers : putting[w] = t

\* Mutant: the registry lookup is forgotten.
CallNew_NoLookup(g, t) ==
    /\ Calling(g)
    /\ pc[t] = "free"
    /\ queues' = [queues EXCEPT ![g] = t]
    /\ pc'     = [pc EXCEPT ![t] = "get"]
    /\ serves' = [serves EXCEPT ![t] = g]
    /\ buf'    = [buf EXCEPT ![t] = <<sent[g] + 1>>]
    /\ sent'   = [sent EXCEPT ![g] = @ + 1]
    /\ UNCHANGED <<event, putting, inline, handled, lost, stopping>>

\* No queue is registered for g: register one, start its thread, put the event.
CallNew(g, t) ==
    /\ Calling(g)
    /\ queues[g] = NoThread
    /\ pc[t] = "free"
    /\ queues' = [queues EXCEPT ![g] = t]
    /\ pc'     = [pc EXCEPT ![t] = "get"]
    /\ serves' = [serves EXCEPT ![t] = g]
    /\ buf'    = [buf EXCEPT ![t] = <<sent[g] + 1>>]
    /\ sent'   = [sent EXCEPT ![g] = @ + 1]
    /\ UNCHANGED <<event, putting, inline, handled, lost, stopping>>

\* Mutant: the queue is created without its depth.
CallQueued_Unbounded(g) ==
    /\ Calling(g)
    /\ queues[g] # NoThread
    /\ buf'  = [buf EXCEPT ![queues[g]] = Append(@, sent[g] + 1)]
    /\ sent' = [sent EXCEPT ![g] = @ + 1]
    /\ UNCHANGED <<queues, pc, serves, event, putting, inline, handled, lost,
                   stopping>>

\* The registered queue has room.
CallQueued(g) ==
    /\ Calling(g)
    /\ queues[g] # NoThread
    /\ ~Full(queues[g])
    /\ buf'  = [buf EXCEPT ![queues[g]] = Append(@, sent[g] + 1)]
    /\ sent' = [sent EXCEPT ![g] = @ + 1]
    /\ UNCHANGED <<queues, pc, serves, event, putting, inline, handled, lost,
                   stopping>>

\* The registered queue is full: the watcher blocks in put().
CallBlocked(g) ==
    /\ Calling(g)
    /\ queues[g] # NoThread
    /\ Full(queues[g])
    /\ putting' = [putting EXCEPT ![Stream[g]] = queues[g]]
    /\ sent'    = [sent EXCEPT ![g] = @ + 1]
    /\ UNCHANGED <<threadVars, queues, inline, handled, lost, stopping>>

\* A blocked put() completes: the event of w is the last one of its group.
Unblock(w) ==
    LET t == putting[w] IN
    /\ t # NoThread
    /\ pc[t] # "free"
    /\ ~Full(t)
    /\ buf'     = [buf EXCEPT ![t] = Append(@, sent[serves[t]])]
    /\ putting' = [putting EXCEPT ![w] = NoThread]
    /\ UNCHANGED <<queues, pc, serves, event, inline, sent, handled, lost,
                   stopping>>

\* The pool has no free place.  The watcher, itself a thread of the pool, then
\* runs _run on the spot: it waits on the queue it has just created.
CallExhausted(g) ==
    /\ Calling(g)
    /\ queues[g] = NoThread
    /\ \A t \in Threads : pc[t] # "free"
    /\ inline' = [inline EXCEPT ![Stream[g]] = g]
    /\ sent'   = [sent EXCEPT ![g] = @ + 1]
    /\ UNCHANGED <<threadVars, queues, putting, handled, lost, stopping>>

\* That wait times out, the link to _done fires at once and removes the queue
\* from the registry, and only then is the event put in it.
InlineReturns(w) ==
    LET g == inline[w] IN
    /\ g # NoGroup
    /\ inline' = [inline EXCEPT ![w] = NoGroup]
    /\ lost'   = [lost EXCEPT ![g] = sent[g]]
    /\ UNCHANGED <<threadVars, queues, putting, sent, handled, stopping>>

-----------------------------------------------------------------------------
(* Async._run and _done, on the group's own thread.                         *)

\* get(timeout) returns the oldest event; the thread sleeps STALE_PERIOD.
Get(t) ==
    /\ pc[t] = "get"
    /\ ~Empty(t)
    /\ event' = [event EXCEPT ![t] = Head(buf[t])]
    /\ buf'   = [buf EXCEPT ![t] = Tail(@)]
    /\ pc'    = [pc EXCEPT ![t] = "stale"]
    /\ UNCHANGED <<queues, serves, putting, inline, sent, handled, lost,
                   stopping>>

\* Mutant: _done does not take the queue out of the registry.
GetTimeout_NoPop(t) ==
    /\ pc[t] = "get"
    /\ Empty(t)
    /\ ~PutBlocked(t)
    /\ pc'     = [pc EXCEPT ![t] = "free"]
    /\ serves' = [serves EXCEPT ![t] = NoGroup]
    /\ UNCHANGED <<queues, buf, event, putting, inline, sent, handled, lost,
                   stopping>>

\* Mutant: the thread gives up although an event has just been queued.
GetTimeout_NotEmpty(t) ==
    /\ pc[t] = "get"
    /\ ~PutBlocked(t)
    /\ pc'     = [pc EXCEPT ![t] = "free"]
    /\ serves' = [serves EXCEPT ![t] = NoGroup]
    /\ buf'    = [buf EXCEPT ![t] = <<>>]
    /\ queues' = [queues EXCEPT ![serves[t]] = NoThread]
    /\ UNCHANGED <<event, putting, inline, sent, handled, lost, stopping>>

\* Nothing arrived for grace_period: the thread ends and its link, _done, pops
\* the registry before any other thread runs.  A put() that was woken by an
\* earlier get() has had the whole grace period to complete.
GetTimeout(t) ==
    /\ pc[t] = "get"
    /\ Empty(t)
    /\ ~PutBlocked(t)
    /\ pc'     = [pc EXCEPT ![t] = "free"]
    /\ serves' = [serves EXCEPT ![t] = NoGroup]
    /\ queues' = [queues EXCEPT ![serves[t]] = NoThread]
    /\ UNCHANGED <<buf, event, putting, inline, sent, handled, lost, stopping>>

\* Mutant: the skipped events stay in the queue.
Drain_Peek(t) ==
    /\ pc[t] = "stale"
    /\ ~Empty(t)
    /\ event' = [event EXCEPT ![t] = buf[t][Len(buf[t])]]
    /\ UNCHANGED <<queues, pc, serves, buf, putting, inline, sent, handled,
                   lost, stopping>>

\* After the sleep the queue is not empty: skip to its newest event, emptying
\* it, and sleep again.
Drain(t) ==
    /\ pc[t] = "stale"
    /\ ~Empty(t)
    /\ event' = [event EXCEPT ![t] = buf[t][Len(buf[t])]]
    /\ buf'   = [buf EXCEPT ![t] = <<>>]
    /\ UNCHANGED <<queues, pc, serves, putting, inline, sent, handled, lost,
                   stopping>>

\* After the sleep the queue is empty: call the handler.
Handle(t) ==
    /\ pc[t] = "stale"
    /\ Empty(t)
    /\ pc' = [pc EXCEPT ![t] = "handle"]
    /\ UNCHANGED <<queues, serves, buf, event, putting, inline, sent, handled,
                   lost, stopping>>

\* Mutant: the thread handles one event and ends.
Finish_OneShot(t) ==
    /\ pc[t] = "handle"
    /\ handled' = [handled EXCEPT ![serves[t]] = event[t]]
    /\ pc'      = [pc EXCEPT ![t] = "free"]
    /\ serves'  = [serves EXCEPT ![t] = NoGroup]
    /\ buf'     = [buf EXCEPT ![t] = <<>>]
    /\ queues'  = [queues EXCEPT ![serves[t]] = NoThread]
    /\ UNCHANGED <<event, putting, inline, sent, lost, stopping>>

\* Mutant: a failed get() is ignored and the last event is handled again.
Finish_Again(t) ==
    /\ pc[t] = "handle"
    /\ handled' = [handled EXCEPT ![serves[t]] = event[t]]
    /\ pc'      = [pc EXCEPT ![t] = "stale"]
    /\ UNCHANGED <<queues, serves, buf, event, putting, inline, sent, lost,
                   stopping>>

\* The handler returns.
Finish(t) ==
    /\ pc[t] = "handle"
    /\ handled' = [handled EXCEPT ![serves[t]] = event[t]]
    /\ pc'      = [pc EXCEPT ![t] = "get"]
    /\ UNCHANGED <<queues, serves, buf, event, putting, inline, sent, lost,
                   stopping>>

-----------------------------------------------------------------------------
(* KuryrK8sService.stop(): no watcher starts another call, and the thread   *)
(* group kills its threads one by one.                                      *)

Stop ==
    /\ ~stopping
    /\ stopping' = TRUE
    /\ UNCHANGED <<threadVars, queues, putting, inline, sent, handled, lost>>

\* The killed thread's link, _done, drops its queue with what is still in it.
Kill(t) ==
    /\ stopping
    /\ pc[t] # "free"
    /\ pc'     = [pc EXCEPT ![t] = "free"]
    /\ serves' = [serves EXCEPT ![t] = NoGroup]
    /\ buf'    = [buf EXCEPT ![t] = <<>>]
    /\ queues' = [queues EXCEPT ![serves[t]] = NoThread]
    /\ UNCHANGED <<event, putting, inline, sent, handled, lost, stopping>>

\* Every thread has ended and no further event comes.
Quiet ==
    /\ \A t \in Threads : pc[t] = "free"
    /\ \A w \in Watchers : inline[w] = NoGroup
    /\ stopping \/ \A g \in Groups : sent[g] = MaxEvents
    /\ UNCHANGED vars

-----------------------------------------------------------------------------
Call(g) ==
    \/ \E t \in Threads : CallNew(g, t)
    \/ CallQueued(g)
    \/ CallBlocked(g)
    \/ CallExhausted(g)

Run(t) ==
    \/ Get(t)
    \/ GetTimeout(t)
    \/ Drain(t)
    \/ Handle(t)
    \/ Finish(t)

Next ==
    \/ \E g \in Groups : Call(g)
    \/ \E w \in Watchers : Unblock(w) \/ InlineReturns(w)
    \/ \E t \in Threads : Run(t) \/ Kill(t)
    \/ Stop
    \/ Quiet

\* The hub runs every ready thread, timeouts fire and handlers return (Retry
\* bounds them); nothing obliges K8s to send events or the service to stop.
Fairness ==
    /\ \A t \in Threads : WF_vars(Run(t))
    /\ \A w \in Watchers : WF_vars(Unblock(w) \/ InlineReturns(w))

Spec     == Init /\ [][Next]_vars
FairSpec == Spec /\ Fairness

-----------------------------------------------------------------------------
(* Safety.                                                                  *)

Live(t) == pc[t] # "free"

\* Two live threads never serve the same object, and the registry names
\* exactly the live ones: the ending of a thread (the timeout of get() and the
\* pop in _done) never crosses a call that found its queue in the registry.
OneThreadPerGroup ==
    /\ \A t1, t2 \in Threads :
          Live(t1) /\ Live(t2) /\ serves[t1] = serves[t2] => t1 = t2
    /\ \A t \in Threads : Live(t) => queues[serves[t]] = t
    /\ \A g \in Groups : queues[g] # NoThread =>
          Live(queues[g]) /\ serves[queues[g]] = g

\* The newest event of an object is never forgotten: while it is unhandled it
\* is in a registered queue, in the hands of a thread, or with a watcher that
\* is still in its call -- unless it went to a queue nobody drains (`lost') or
\* the service is being stopped.  A watcher blocked on a queue waits for the
\* thread of one of its own objects.
Kept(g) ==
    \/ handled[g] = sent[g]
    \/ lost[g] = sent[g]
    \/ inline[Stream[g]] = g
    \/ LET t == queues[g] IN
       /\ t # NoThread
       /\ \/ putting[Stream[g]] = t
          \/ ~Empty(t) /\ buf[t][Len(buf[t])] = sent[g]
          \/ pc[t] \in {"stale", "handle"} /\ event[t] = sent[g]

NewestEventKept == ~stopping => \A g \in Groups : Kept(g)

\* The queue of a live thread holds a gapless run of its object's events that
\* ends with the newest one (less the one a blocked watcher is holding), all
\* newer than the event being handled and than everything handled.
Blocked(g) == IF putting[Stream[g]] # NoThread /\ serves[putting[Stream[g]]] = g
              THEN 1 ELSE 0

TailOf(t) ==
    LET g == serves[t]
        n == Len(buf[t]) IN
    /\ \A i \in 1..n : buf[t][i] + n + Blocked(g) = sent[g] + i
    /\ handled[g] + n + Blocked(g) <= sent[g]
    /\ pc[t] \in {"stale", "handle"} =>
          /\ event[t] > handled[g]
          /\ event[t] + n + Blocked(g) <= sent[g]

QueueIsTheTail == \A t \in Threads : Live(t) => TailOf(t)

\* What the proofs need besides: ended threads are blank, and a watcher blocks
\* only on (or runs in line only) an object of its own.
ThreadShape ==
    \A t \in Threads : /\ pc[t] = "free" <=> serves[t] = NoGroup
                       /\ pc[t] = "free" => Empty(t)

CallerShape ==
    /\ \A w \in Watchers : putting[w] # NoThread =>
          /\ Live(putting[w]) => Stream[serves[putting[w]]] = w
          /\ ~stopping => Live(putting[w])
    /\ \A w \in Watchers : inline[w] # NoGroup => Stream[inline[w]] = w
    /\ \A g \in Groups : handled[g] <= sent[g]

IndInv ==
    /\ TypeOK
    /\ ThreadShape
    /\ OneThreadPerGroup
    /\ CallerShape
    /\ QueueIsTheTail
    /\ NewestEventKept

-----------------------------------------------------------------------------
(* What Async promises its handlers.                                        *)

\* The event of g that is in the handler, or 0.
Taking(g) ==
    IF queues[g] # NoThread /\ pc[queues[g]] = "handle" THEN event[queues[g]]
                                                        ELSE 0

Mailbox == INSTANCE SerialMailbox
             WITH taking <- [g \in Groups |-> Taking(g)], open <- ~stopping

\* Async implements SerialMailbox: related events are handled serially and in
\* their order of arrival (docstring of Async), although threads start, end
\* and are reused while events keep arriving.
MailboxSpec == Mailbox!Spec

\* Every event, or a newer one of its object, is eventually handled, unless it
\* was put in a queue nobody drains or the service stops.
EventsHandled ==
    \A g \in Groups : \A n \in 1..MaxEvents :
       sent[g] >= n ~> (handled[g] >= n \/ lost[g] >= n \/ stopping)

\* A watcher blocked by one object's full queue eventually goes on to serve
\* the other objects of its path.
WatcherUnblocked ==
    \A w \in Watchers :
       putting[w] # NoThread ~> (putting[w] = NoThread \/ stopping)

\* No event is put in a queue nobody drains.  With more busy objects than the
\* pool has places, one is.
NothingLost == \A g \in Groups : lost[g] = 0
=============================================================================
