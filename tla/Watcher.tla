-------------------------------- MODULE Watcher -------------------------------
(***************************************************************************)
(* The watcher (watcher.py) in its asynchronous mode: one event loop per   *)
(* K8s resource path, each on a green thread of its own, which the owner   *)
(* of the watcher starts and stops by add, remove, start and stop.         *)
(*                                                                         *)
(* Green threads switch only where they block: a loop in client.watch and  *)
(* in its handler, the owner when it kills a thread.  Everything between   *)
(* two such points is one step.                                            *)
(***************************************************************************)
EXTENDS Naturals, FiniteSets

CONSTANTS Paths, Threads, NoPath, NoThread

ASSUME NoPathAssumption   == NoPath \notin Paths
ASSUME NoThreadAssumption == NoThread \notin Threads

VARIABLES resources,  \* _resources
          running,    \* _running
          watching,   \* _watching: the thread of a path, or NoThread
          idle,       \* _idle: the paths for which it is True
          pc,         \* what each thread does
          loop,       \* the path each thread watches
          todo,       \* paths that a stop() under way has still to visit
          broken      \* how the last loop of a path died: its watch failed, or
                      \* it was killed before its thread first ran (unborn)

threadVars == <<pc, loop>>
vars == <<resources, running, watching, idle, pc, loop, todo, broken>>

\* The paths with an entry in _watching, and in _idle.
Watched == {p \in Paths : watching[p] # NoThread}

Live(t) == pc[t] # "free"

TypeOK ==
    /\ resources \subseteq Paths
    /\ running \in BOOLEAN
    /\ watching \in [Paths -> Threads \cup {NoThread}]
    /\ idle \subseteq Watched
    /\ pc \in [Threads -> {"free", "new", "wait", "handle"}]
    /\ loop \in [Threads -> Paths \cup {NoPath}]
    /\ todo \subseteq Paths
    /\ broken \in [Paths -> {"no", "failed", "unborn"}]

Init ==
    /\ resources = {} /\ running = FALSE
    /\ watching = [p \in Paths |-> NoThread] /\ idle = {}
    /\ pc = [t \in Threads |-> "free"] /\ loop = [t \in Threads |-> NoPath]
    /\ todo = {} /\ broken = [p \in Paths |-> "no"]

\* A thread that is not in use, nor remembered by the watcher.
Fresh(t) == pc[t] = "free" /\ \A p \in Paths : watching[p] # t

-----------------------------------------------------------------------------
(* Starting and stopping loops.                                             *)

\* _start_watch for the paths of f, a thread for each.
StartWatch(f) ==
    LET started == DOMAIN f
        at(t)   == CHOOSE p \in started : f[p] = t
        used    == {f[p] : p \in started} IN
    /\ \A p \in started : Fresh(f[p])
    /\ \A p, q \in started : f[p] = f[q] => p = q
    /\ watching' = [p \in Paths |-> IF p \in started THEN f[p] ELSE watching[p]]
    /\ idle'     = idle \cup started
    /\ pc'       = [t \in Threads |-> IF t \in used THEN "new" ELSE pc[t]]
    /\ loop'     = [t \in Threads |-> IF t \in used THEN at(t) ELSE loop[t]]
    /\ broken'   = [p \in Paths |-> IF p \in started THEN "no" ELSE broken[p]]

\* The `finally' of _watch.
EndLoop(t) ==
    /\ watching' = [watching EXCEPT ![loop[t]] = NoThread]
    /\ idle'     = idle \ {loop[t]}
    /\ pc'       = [pc EXCEPT ![t] = "free"]
    /\ loop'     = [loop EXCEPT ![t] = NoPath]

\* GreenThread.kill: a thread that has run unwinds through its `finally' at
\* once; one that has not, never enters _watch.
Kill(t) ==
    \/ pc[t] = "free" /\ UNCHANGED <<watching, idle, pc, loop, broken>>
    \/ /\ pc[t] = "new"
       /\ pc'     = [pc EXCEPT ![t] = "free"]
       /\ loop'   = [loop EXCEPT ![t] = NoPath]
       /\ broken' = [broken EXCEPT ![loop[t]] = "unborn"]
       /\ UNCHANGED <<watching, idle>>
    \/ pc[t] \in {"wait", "handle"} /\ EndLoop(t) /\ UNCHANGED broken

\* Mutant: _stop_watch kills the loop whatever it is doing.
StopWatch_Always(p) ==
    IF watching[p] # NoThread THEN Kill(watching[p])
                              ELSE UNCHANGED <<watching, idle, pc, loop, broken>>

\* _stop_watch: only an idle loop is killed.
StopWatch(p) ==
    IF p \in idle THEN Kill(watching[p])
                  ELSE UNCHANGED <<watching, idle, pc, loop, broken>>

-----------------------------------------------------------------------------
(* The owner's calls, one at a time.                                        *)

\* Mutant: add() starts a loop without looking for one.
Add_Anyway(p) ==
    /\ todo = {}
    /\ resources' = resources \cup {p}
    /\ IF running
         THEN \E t \in Threads : StartWatch([q \in {p} |-> t])
         ELSE UNCHANGED <<watching, idle, threadVars, broken>>
    /\ UNCHANGED <<running, todo>>

Add(p) ==
    /\ todo = {}
    /\ resources' = resources \cup {p}
    /\ IF running /\ p \notin Watched
         THEN \E t \in Threads : StartWatch([q \in {p} |-> t])
         ELSE UNCHANGED <<watching, idle, threadVars, broken>>
    /\ UNCHANGED <<running, todo>>

Remove(p) ==
    /\ todo = {}
    /\ resources' = resources \ {p}
    /\ IF p \in Watched THEN StopWatch(p)
                        ELSE UNCHANGED <<watching, idle, threadVars, broken>>
    /\ UNCHANGED <<running, todo>>

\* Mutant: start() does nothing when it was called before and no loop ended.
Start_Once ==
    /\ todo = {}
    /\ running' = TRUE
    /\ \E f \in [IF Watched = {} THEN resources ELSE {} -> Threads] : StartWatch(f)
    /\ UNCHANGED <<resources, todo>>

Start ==
    /\ todo = {}
    /\ running' = TRUE
    /\ \E f \in [resources \ Watched -> Threads] : StartWatch(f)
    /\ UNCHANGED <<resources, todo>>

Stop ==
    /\ todo = {}
    /\ running' = FALSE
    /\ todo' = Watched
    /\ UNCHANGED <<resources, watching, idle, threadVars, broken>>

\* stop() goes on to the next path; a kill lets other threads run.
StopNext(p) ==
    /\ p \in todo
    /\ StopWatch(p)
    /\ todo' = todo \ {p}
    /\ UNCHANGED <<resources, running>>

-----------------------------------------------------------------------------
(* The loops: _watch.                                                       *)

loopFrame == <<resources, running, todo>>

Begin(t) ==
    /\ pc[t] = "new"
    /\ pc' = [pc EXCEPT ![t] = "wait"]
    /\ UNCHANGED <<loopFrame, watching, idle, loop, broken>>

\* An event arrives and the handler is called.
Event(t) ==
    /\ pc[t] = "wait"
    /\ pc'   = [pc EXCEPT ![t] = "handle"]
    /\ idle' = idle \ {loop[t]}
    /\ UNCHANGED <<loopFrame, watching, loop, broken>>

\* Mutants: after an event the loop looks only at the list, or only at _running.
Wanted_Listed(t) == loop[t] \in resources
Wanted_Running(t) == running

\* The loop is to go on.
Wanted(t) == running /\ loop[t] \in resources

\* Mutant: _idle is not set again.
HandlerReturns_StillBusy(t) ==
    /\ pc[t] = "handle"
    /\ IF Wanted(t)
         THEN /\ pc' = [pc EXCEPT ![t] = "wait"]
              /\ UNCHANGED <<watching, idle, loop>>
         ELSE EndLoop(t)
    /\ UNCHANGED <<loopFrame, broken>>

\* The handler is done: wait for the next event, or end.
HandlerReturns(t) ==
    /\ pc[t] = "handle"
    /\ IF Wanted(t)
         THEN /\ pc'   = [pc EXCEPT ![t] = "wait"]
              /\ idle' = idle \cup {loop[t]}
              /\ UNCHANGED <<watching, loop>>
         ELSE EndLoop(t)
    /\ UNCHANGED <<loopFrame, broken>>

\* client.watch raises: the loop ends.
WatchFails(t) ==
    /\ pc[t] = "wait"
    /\ EndLoop(t)
    /\ broken' = [broken EXCEPT ![loop[t]] = "failed"]
    /\ UNCHANGED loopFrame

-----------------------------------------------------------------------------
Owner == \/ \E p \in Paths : Add(p) \/ Remove(p) \/ StopNext(p)
         \/ Start \/ Stop

Loop(t) == Begin(t) \/ Event(t) \/ HandlerReturns(t) \/ WatchFails(t)

Next == Owner \/ \E t \in Threads : Loop(t)

Spec == Init /\ [][Next]_vars

\* A stop() that began goes on, a thread that was spawned runs, and a handler
\* returns.  Events and failures need not come.
Fairness ==
    /\ \A p \in Paths : WF_vars(StopNext(p))
    /\ \A t \in Threads : WF_vars(Begin(t)) /\ WF_vars(HandlerReturns(t))

FairSpec == Spec /\ Fairness

-----------------------------------------------------------------------------
(* Properties.                                                              *)

\* A path never has two loops, however add, remove, start and stop follow one
\* another while a handler is running.
OneLoopPerPath ==
    \A t, u \in Threads : Live(t) /\ Live(u) /\ loop[t] = loop[u] => t = u

\* What the watcher's books say of a loop is what the loop does, so that a stop
\* reaches the right thread in the right state.
BooksMatch ==
    \A t \in Threads : Live(t) =>
      /\ loop[t] \in Paths /\ watching[loop[t]] = t
      /\ loop[t] \in idle <=> pc[t] # "handle"

HasLoop(p) == \E t \in Threads : Live(t) /\ loop[t] = p

\* While the watcher runs, each path on its list has a loop, unless that died.
ListedIsWatched ==
    running => \A p \in resources :
      broken[p] # "no" \/ HasLoop(p)

\* add, remove, start and stop never take a thread out of its handler.
HandlerNotInterrupted ==
    [][ \A t \in Threads : pc[t] = "handle" /\ pc'[t] = "free"
          => UNCHANGED <<resources, running, todo>> ]_vars

\* Once the watcher is stopped, all loops end, unless it is started again.
StopEndsLoops == ~running ~> (running \/ \A t \in Threads : ~Live(t))

\* A path taken off the list loses its loop, unless it is added again.
RemoveEndsLoop ==
    \A p \in Paths :
      (p \notin resources) ~>
        (p \in resources \/ \A t \in Threads : Live(t) => loop[t] # p)
=============================================================================
