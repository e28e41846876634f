---------------------------- MODULE Watcher_proofs ----------------------------
(***************************************************************************)
(* Proofs about Watcher, for any paths and threads.  BooksMatch is nearly  *)
(* inductive: what is missing is that a path whose remembered thread is    *)
(* dead is one whose loop was killed unborn, and that stop() only visits   *)
(* paths of a watcher that is not running.  From the same invariant, the   *)
(* thread that a stop or a remove kills is not one that handles an event.  *)
(***************************************************************************)
EXTENDS Watcher, TLAPS

USE NoPathAssumption, NoThreadAssumption

\* A remembered thread is the path's live loop, or its loop was killed unborn.
Remembered ==
    \A p \in Watched :
      \/ Live(watching[p]) /\ loop[watching[p]] = p
      \/ pc[watching[p]] = "free" /\ broken[p] = "unborn"

\* A listed path that no loop died on is remembered.
Listed == running => /\ todo = {}
                     /\ \A p \in resources : broken[p] # "no" \/ p \in Watched

IndInv == TypeOK /\ BooksMatch /\ Remembered /\ Listed

-----------------------------------------------------------------------------
(* Starting loops.                                                          *)

\* StartWatch, read off path by path and thread by thread.
LEMMA StartedLoops ==
    ASSUME TypeOK, NEW S \in SUBSET (Paths \ Watched), NEW f \in [S -> Threads],
           StartWatch(f)
    PROVE  /\ \A p \in S : /\ f[p] \in Threads /\ pc[f[p]] = "free"
                           /\ watching'[p] = f[p] /\ p \in idle'
                           /\ pc'[f[p]] = "new" /\ loop'[f[p]] = p
                           /\ \A q \in Paths : watching[q] # f[p]
           /\ \A p \in Paths \ S : /\ watching'[p] = watching[p]
                                   /\ broken'[p] = broken[p]
                                   /\ p \in idle' <=> p \in idle
           /\ \A t \in Threads : \/ pc'[t] = pc[t] /\ loop'[t] = loop[t]
                                 \/ \E p \in S : f[p] = t
<1> DEFINE at(t) == CHOOSE p \in S : f[p] = t
           used  == {f[p] : p \in S}
<1>0. DOMAIN f = S
  OBVIOUS
<1>1. /\ \A p \in S : Fresh(f[p])
      /\ \A p, q \in S : f[p] = f[q] => p = q
      /\ watching' = [p \in Paths |-> IF p \in S THEN f[p] ELSE watching[p]]
      /\ idle' = idle \cup S
      /\ pc' = [t \in Threads |-> IF t \in used THEN "new" ELSE pc[t]]
      /\ loop' = [t \in Threads |-> IF t \in used THEN at(t) ELSE loop[t]]
      /\ broken' = [p \in Paths |-> IF p \in S THEN "no" ELSE broken[p]]
  BY <1>0 DEF StartWatch
<1>2. ASSUME NEW p \in S
      PROVE  at(f[p]) = p
  <2>1. at(f[p]) \in S /\ f[at(f[p])] = f[p]
    OBVIOUS
  <2> QED
    BY <1>1, <2>1
<1>3. ASSUME NEW p \in S
      PROVE  /\ f[p] \in Threads /\ pc[f[p]] = "free"
             /\ watching'[p] = f[p] /\ p \in idle'
             /\ pc'[f[p]] = "new" /\ loop'[f[p]] = p
             /\ \A q \in Paths : watching[q] # f[p]
  <2>1. p \in Paths /\ f[p] \in Threads /\ f[p] \in used
    OBVIOUS
  <2> HIDE DEF at
  <2> QED
    BY <1>1, <1>2, <2>1 DEF Fresh
<1>4. ASSUME NEW p \in Paths \ S
      PROVE  watching'[p] = watching[p] /\ broken'[p] = broken[p] /\ (p \in idle' <=> p \in idle)
  BY <1>1
<1>5. ASSUME NEW t \in Threads
      PROVE  (pc'[t] = pc[t] /\ loop'[t] = loop[t]) \/ \E p \in S : f[p] = t
  BY <1>1
<1> HIDE DEF at, used
<1> QED
  BY <1>3, <1>4, <1>5

LEMMA StartTypes ==
    ASSUME TypeOK, NEW S \in SUBSET (Paths \ Watched), NEW f \in [S -> Threads],
           StartWatch(f)
    PROVE  /\ watching' \in [Paths -> Threads \cup {NoThread}]
           /\ idle' \subseteq Watched'
           /\ pc' \in [Threads -> {"free", "new", "wait", "handle"}]
           /\ loop' \in [Threads -> Paths \cup {NoPath}]
           /\ broken' \in [Paths -> {"no", "failed", "unborn"}]
<1>1. S \subseteq Paths /\ DOMAIN f = S /\ \A p \in S : f[p] \in Threads
  OBVIOUS
<1>2. ASSUME NEW t \in {f[p] : p \in S}
      PROVE  (CHOOSE p \in S : f[p] = t) \in Paths
  BY <1>1, <1>2
<1>3. watching' \in [Paths -> Threads \cup {NoThread}]
  BY <1>1 DEF StartWatch, TypeOK
<1>4. pc' \in [Threads -> {"free", "new", "wait", "handle"}]
  BY <1>1 DEF StartWatch, TypeOK
<1>5. loop' \in [Threads -> Paths \cup {NoPath}]
  BY <1>1, <1>2 DEF StartWatch, TypeOK
<1>6. broken' \in [Paths -> {"no", "failed", "unborn"}]
  BY <1>1 DEF StartWatch, TypeOK
<1>7. idle' \subseteq Watched'
  BY <1>1 DEF StartWatch, TypeOK, Watched
<1> QED
  BY <1>3, <1>4, <1>5, <1>6, <1>7

\* The books after a start, of the loops there were and of the new ones.
LEMMA StartBooks ==
    ASSUME TypeOK, BooksMatch, Remembered,
           NEW S \in SUBSET (Paths \ Watched), NEW f \in [S -> Threads],
           StartWatch(f)
    PROVE  /\ BooksMatch' /\ Remembered'
           /\ Watched' = Watched \cup S
           /\ \A p \in Paths \ S : broken'[p] = broken[p]
<1> DEFINE new(t) == \E p \in S : f[p] = t
<1>0. \A p \in S : Fresh(f[p])
  BY DEF StartWatch
<1>1. Watched' = Watched \cup S
  BY StartedLoops DEF Watched
<1>2. ASSUME NEW t \in Threads, Live(t)'
      PROVE  /\ loop'[t] \in Paths /\ watching'[loop'[t]] = t
             /\ loop'[t] \in idle' <=> pc'[t] # "handle"
  <2>1. CASE new(t)
    BY <2>1, StartedLoops
  <2>2. CASE ~new(t)
    <3>1. pc'[t] = pc[t] /\ loop'[t] = loop[t]
      BY <2>2, StartedLoops
    <3>2. /\ loop[t] \in Paths /\ watching[loop[t]] = t
          /\ loop[t] \in idle <=> pc[t] # "handle"
      BY <1>2, <3>1 DEF BooksMatch, Live
    <3>3. loop[t] \in Paths \ S
      BY <3>2 DEF Watched
    <3> QED
      BY <3>1, <3>2, <3>3, StartedLoops
  <2> QED
    BY <2>1, <2>2
<1>3. ASSUME NEW p \in Watched'
      PROVE  \/ Live(watching[p])' /\ loop'[watching'[p]] = p
             \/ pc'[watching'[p]] = "free" /\ broken'[p] = "unborn"
  <2>1. CASE p \in S
    BY <2>1, StartedLoops DEF Live
  <2>2. CASE p \in Watched /\ p \notin S
    <3>0. p \in Paths \ S /\ watching[p] \in Threads
      BY <2>2 DEF Watched, TypeOK
    <3>1. watching'[p] = watching[p] /\ broken'[p] = broken[p]
      BY <3>0, StartedLoops
    <3>2. ~new(watching[p])
      BY <1>0, <3>0 DEF Fresh
    <3>3. pc'[watching[p]] = pc[watching[p]] /\ loop'[watching[p]] = loop[watching[p]]
      BY <3>0, <3>2, StartedLoops
    <3> QED
      BY <2>2, <3>0, <3>1, <3>3 DEF Remembered, Live
  <2> QED
    BY <1>1, <2>1, <2>2
<1>4. \A p \in Paths \ S : broken'[p] = broken[p]
  BY StartedLoops
<1> QED
  BY <1>1, <1>2, <1>3, <1>4 DEF BooksMatch, Remembered

-----------------------------------------------------------------------------
(* Ending loops.                                                            *)

\* A live loop ends, for whatever reason.
LEMMA EndBooks ==
    ASSUME TypeOK, BooksMatch, Remembered, NEW t \in Threads, Live(t), EndLoop(t),
           broken' = broken \/ broken' = [broken EXCEPT ![loop[t]] = "failed"]
    PROVE  /\ loop[t] \in Watched
           /\ Watched' = Watched \ {loop[t]}
           /\ watching' \in [Paths -> Threads \cup {NoThread}]
           /\ idle' \subseteq Watched'
           /\ pc' \in [Threads -> {"free", "new", "wait", "handle"}]
           /\ loop' \in [Threads -> Paths \cup {NoPath}]
           /\ broken' \in [Paths -> {"no", "failed", "unborn"}]
           /\ BooksMatch' /\ Remembered'
<1>1. loop[t] \in Paths /\ watching[loop[t]] = t /\ t # NoThread
  BY DEF BooksMatch
<1>2. PICK p : p = loop[t]
  OBVIOUS
<1>3. /\ watching' = [watching EXCEPT ![p] = NoThread] /\ idle' = idle \ {p}
      /\ pc' = [pc EXCEPT ![t] = "free"] /\ loop' = [loop EXCEPT ![t] = NoPath]
      /\ p \in Paths /\ watching[p] = t /\ p \in Watched
  BY <1>1, <1>2 DEF EndLoop, Watched
<1>4. Watched' = Watched \ {p}
  BY <1>3 DEF Watched, TypeOK
<1>5. /\ watching' \in [Paths -> Threads \cup {NoThread}] /\ idle' \subseteq Watched'
      /\ pc' \in [Threads -> {"free", "new", "wait", "handle"}]
      /\ loop' \in [Threads -> Paths \cup {NoPath}]
      /\ broken' \in [Paths -> {"no", "failed", "unborn"}]
  BY <1>3, <1>4 DEF TypeOK
<1>6. ASSUME NEW u \in Threads, Live(u)'
      PROVE  /\ loop'[u] \in Paths /\ watching'[loop'[u]] = u
             /\ loop'[u] \in idle' <=> pc'[u] # "handle"
  <2>1. u # t /\ pc'[u] = pc[u] /\ loop'[u] = loop[u]
    BY <1>3, <1>6 DEF Live, TypeOK
  <2>2. /\ loop[u] \in Paths /\ watching[loop[u]] = u
        /\ loop[u] \in idle <=> pc[u] # "handle"
    BY <1>6, <2>1 DEF Live, BooksMatch
  <2>3. loop[u] # p
    BY <1>3, <2>1, <2>2
  <2> QED
    BY <1>3, <2>1, <2>2, <2>3 DEF TypeOK
<1>7. ASSUME NEW q \in Watched'
      PROVE  \/ Live(watching[q])' /\ loop'[watching'[q]] = q
             \/ pc'[watching'[q]] = "free" /\ broken'[q] = "unborn"
  <2>1. q \in Watched /\ q # p /\ q \in Paths
    BY <1>4, <1>7 DEF Watched
  <2>2. watching'[q] = watching[q] /\ watching[q] \in Threads /\ broken'[q] = broken[q]
    BY <1>2, <1>3, <2>1 DEF TypeOK, Watched
  <2>3. CASE Live(watching[q]) /\ loop[watching[q]] = q
    <3>1. watching[q] # t
      BY <1>2, <2>1, <2>3
    <3> QED
      BY <1>3, <2>2, <2>3, <3>1 DEF Live, TypeOK
  <2>4. CASE pc[watching[q]] = "free" /\ broken[q] = "unborn"
    BY <1>3, <2>2, <2>4 DEF TypeOK
  <2> QED
    BY <2>1, <2>3, <2>4 DEF Remembered
<1> QED
  BY <1>2, <1>3, <1>4, <1>5, <1>6, <1>7 DEF BooksMatch, Remembered

\* What remove and stop do to the loop of a path.
LEMMA StopWatchBooks ==
    ASSUME TypeOK, BooksMatch, Remembered, NEW p \in Paths, StopWatch(p)
    PROVE  /\ Watched' \in {Watched, Watched \ {p}}
           /\ watching' \in [Paths -> Threads \cup {NoThread}]
           /\ idle' \subseteq Watched'
           /\ pc' \in [Threads -> {"free", "new", "wait", "handle"}]
           /\ loop' \in [Threads -> Paths \cup {NoPath}]
           /\ broken' \in [Paths -> {"no", "failed", "unborn"}]
           /\ \A q \in Paths : broken'[q] # broken[q] => q = p
           /\ BooksMatch' /\ Remembered'
<1>1. CASE UNCHANGED <<watching, idle, pc, loop, broken>>
  BY <1>1 DEF TypeOK, BooksMatch, Remembered, Watched, Live
<1>2. CASE p \in idle /\ ~UNCHANGED <<watching, idle, pc, loop, broken>>
  <2>1. PICK t : t = watching[p]
    OBVIOUS
  <2>2. t \in Threads /\ Kill(t) /\ p \in Watched
    BY <1>2, <2>1 DEF StopWatch, TypeOK, Watched
  <2>3. pc[t] # "free"
    BY <1>2, <2>2 DEF Kill
  <2>4. Live(t) /\ loop[t] = p
    BY <2>1, <2>2, <2>3 DEF Remembered, Live
  <2>5. CASE pc[t] = "new"
    <3>1. /\ pc' = [pc EXCEPT ![t] = "free"] /\ loop' = [loop EXCEPT ![t] = NoPath]
          /\ broken' = [broken EXCEPT ![p] = "unborn"] /\ UNCHANGED <<watching, idle>>
      BY <2>2, <2>4, <2>5 DEF Kill
    <3>2. Watched' = Watched
      BY <3>1 DEF Watched
    <3>3. ASSUME NEW u \in Threads, Live(u)'
          PROVE  /\ loop'[u] \in Paths /\ watching'[loop'[u]] = u
                 /\ loop'[u] \in idle' <=> pc'[u] # "handle"
      BY <3>1, <3>3 DEF Live, TypeOK, BooksMatch
    <3>4. ASSUME NEW q \in Watched'
          PROVE  \/ Live(watching[q])' /\ loop'[watching'[q]] = q
                 \/ pc'[watching'[q]] = "free" /\ broken'[q] = "unborn"
      <4>1. q \in Watched /\ q \in Paths /\ watching[q] \in Threads
        BY <3>2 DEF Watched, TypeOK
      <4>2. CASE q = p
        BY <2>1, <2>2, <3>1, <4>2 DEF TypeOK
      <4>3. CASE q # p /\ Live(watching[q]) /\ loop[watching[q]] = q
        <5>1. watching[q] # t
          BY <2>4, <4>3
        <5> QED
          BY <3>1, <4>1, <4>3, <5>1 DEF TypeOK, Live
      <4>4. CASE q # p /\ pc[watching[q]] = "free" /\ broken[q] = "unborn"
        BY <3>1, <4>1, <4>4 DEF TypeOK
      <4> QED
        BY <4>1, <4>2, <4>3, <4>4 DEF Remembered
    <3>5. /\ pc' \in [Threads -> {"free", "new", "wait", "handle"}]
          /\ loop' \in [Threads -> Paths \cup {NoPath}]
          /\ broken' \in [Paths -> {"no", "failed", "unborn"}]
          /\ \A q \in Paths : broken'[q] # broken[q] => q = p
      BY <3>1 DEF TypeOK
    <3> QED
      BY <3>1, <3>2, <3>3, <3>4, <3>5 DEF TypeOK, BooksMatch, Remembered
  <2>6. CASE pc[t] \in {"wait", "handle"}
    <3>1. EndLoop(t) /\ broken' = broken
      BY <2>2, <2>6 DEF Kill
    <3> QED
      BY <2>2, <2>4, <3>1, EndBooks
  <2> QED
    BY <2>2, <2>3, <2>5, <2>6 DEF TypeOK
<1> QED
  BY <1>1, <1>2 DEF StopWatch

-----------------------------------------------------------------------------
(* The invariant.                                                           *)

LEMMA OwnerStep ==
    ASSUME IndInv, Owner
    PROVE  IndInv'
<1>0. TypeOK /\ BooksMatch /\ Remembered /\ Listed
  BY DEF IndInv
<1>1. ASSUME NEW S \in SUBSET (Paths \ Watched), NEW f \in [S -> Threads], StartWatch(f),
             resources' \subseteq Paths, running' \in BOOLEAN, todo' = {},
             running' => \A p \in resources' : p \in S \cup Watched \/ broken[p] # "no"
      PROVE  IndInv'
  <2>1. /\ BooksMatch' /\ Remembered' /\ Watched' = Watched \cup S
        /\ \A p \in Paths \ S : broken'[p] = broken[p]
    BY <1>0, <1>1, StartBooks
  <2>2. TypeOK'
    BY <1>0, <1>1, StartTypes DEF TypeOK
  <2>3. Listed'
    <3>1. ASSUME running', NEW p \in resources'
          PROVE  broken'[p] # "no" \/ p \in Watched'
      BY <1>1, <2>1, <3>1
    <3> QED
      BY <1>1, <3>1 DEF Listed
  <2> QED
    BY <2>1, <2>2, <2>3 DEF IndInv
<1>2. ASSUME UNCHANGED <<watching, idle, pc, loop, broken>>,
             resources' \subseteq Paths, running' \in BOOLEAN, todo' \subseteq Paths, Listed'
      PROVE  IndInv'
  BY <1>0, <1>2 DEF IndInv, TypeOK, BooksMatch, Remembered, Watched, Live
<1>3. ASSUME NEW p \in Paths, StopWatch(p),
             resources' \subseteq Paths, running' \in BOOLEAN, todo' \subseteq Paths,
             running' => todo' = {} /\ \A q \in resources' : q # p /\ running /\ q \in resources
      PROVE  IndInv'
  <2>1. /\ Watched' \in {Watched, Watched \ {p}}
        /\ \A q \in Paths : broken'[q] # broken[q] => q = p
        /\ BooksMatch' /\ Remembered'
    BY <1>0, <1>3, StopWatchBooks
  <2>2. TypeOK'
    BY <1>0, <1>3, StopWatchBooks DEF TypeOK
  <2>3. Listed'
    <3>1. ASSUME running', NEW q \in resources'
          PROVE  broken'[q] # "no" \/ q \in Watched'
      <4>1. q # p /\ q \in Paths /\ (broken[q] # "no" \/ q \in Watched)
        BY <1>0, <1>3, <3>1 DEF Listed
      <4> QED
        BY <2>1, <4>1
    <3> QED
      BY <1>3, <3>1 DEF Listed
  <2> QED
    BY <2>1, <2>2, <2>3 DEF IndInv
<1>4. ASSUME NEW p \in Paths, Add(p)
      PROVE  IndInv'
  <2>1. /\ resources' = resources \cup {p} /\ resources' \subseteq Paths
        /\ running' = running /\ running \in BOOLEAN /\ todo' = {}
    BY <1>0, <1>4 DEF Add, TypeOK
  <2>2. CASE running /\ p \notin Watched
    <3>1. PICK t \in Threads : StartWatch([q \in {p} |-> t])
      BY <1>4, <2>2 DEF Add
    <3>2. {p} \in SUBSET (Paths \ Watched) /\ [q \in {p} |-> t] \in [{p} -> Threads]
      BY <2>2
    <3>3. \A q \in resources' : q \in {p} \cup Watched \/ broken[q] # "no"
      BY <1>0, <2>1, <2>2 DEF Listed
    <3> QED
      BY <1>1, <2>1, <3>1, <3>2, <3>3
  <2>3. CASE ~(running /\ p \notin Watched)
    <3>1. UNCHANGED <<watching, idle, pc, loop, broken>>
      BY <1>4, <2>3 DEF Add, threadVars
    <3>2. Listed'
      BY <1>0, <2>1, <2>3, <3>1 DEF Listed, Watched
    <3> QED
      BY <1>2, <2>1, <3>1, <3>2
  <2> QED
    BY <2>2, <2>3
<1>5. ASSUME NEW p \in Paths, Remove(p)
      PROVE  IndInv'
  <2>1. /\ resources' = resources \ {p} /\ resources' \subseteq Paths
        /\ running' = running /\ running \in BOOLEAN /\ todo' = {}
    BY <1>0, <1>5 DEF Remove, TypeOK
  <2>2. CASE StopWatch(p)
    BY <1>3, <2>1, <2>2
  <2>3. CASE UNCHANGED <<watching, idle, pc, loop, broken>>
    <3>1. Listed'
      BY <1>0, <2>1, <2>3 DEF Listed, Watched
    <3> QED
      BY <1>2, <2>1, <2>3, <3>1
  <2> QED
    BY <1>5, <2>2, <2>3 DEF Remove, threadVars
<1>6. CASE Start
  <2>1. /\ UNCHANGED resources /\ resources \subseteq Paths /\ running' = TRUE /\ todo' = {}
    BY <1>0, <1>6 DEF Start, TypeOK
  <2>2. PICK f \in [resources \ Watched -> Threads] : StartWatch(f)
    BY <1>6 DEF Start
  <2>3. resources \ Watched \in SUBSET (Paths \ Watched)
    BY <2>1
  <2> QED
    BY <1>1, <2>1, <2>2, <2>3
<1>7. CASE Stop
  <2>1. Listed' /\ todo' \subseteq Paths /\ resources' \subseteq Paths /\ running' \in BOOLEAN
    BY <1>0, <1>7 DEF Stop, Listed, Watched, TypeOK
  <2> QED
    BY <1>2, <1>7, <2>1 DEF Stop, threadVars
<1>8. ASSUME NEW p \in Paths, StopNext(p)
      PROVE  IndInv'
  <2>1. /\ StopWatch(p) /\ UNCHANGED <<resources, running>> /\ ~running
        /\ resources \subseteq Paths /\ running \in BOOLEAN /\ todo' \subseteq Paths
    BY <1>0, <1>8 DEF StopNext, Listed, TypeOK
  <2> QED
    BY <1>3, <2>1
<1> QED
  BY <1>4, <1>5, <1>6, <1>7, <1>8 DEF Owner

LEMMA LoopStep ==
    ASSUME IndInv, NEW t \in Threads, Loop(t)
    PROVE  IndInv'
<1>0. TypeOK /\ BooksMatch /\ Remembered /\ Listed
  BY DEF IndInv
<1>1. loop[t] \in Paths /\ watching[loop[t]] = t /\ Live(t) /\ loop[t] \in Watched
  BY <1>0 DEF Loop, Begin, Event, HandlerReturns, WatchFails, BooksMatch, Live, Watched
<1>2. ASSUME UNCHANGED <<resources, running, todo, watching, loop, broken>>,
             NEW s \in {"wait", "handle"}, pc' = [pc EXCEPT ![t] = s],
             \/ s = "wait" /\ idle' = idle \cup {loop[t]}
             \/ s = "handle" /\ idle' = idle \ {loop[t]}
      PROVE  IndInv'
  <2>1. Watched' = Watched
    BY <1>2 DEF Watched
  <2>2. TypeOK'
    BY <1>0, <1>1, <1>2, <2>1 DEF TypeOK
  <2>3. BooksMatch'
    BY <1>0, <1>1, <1>2 DEF BooksMatch, Live, TypeOK
  <2>4. Remembered'
    <3>1. \A u \in Threads : u # t => pc'[u] = pc[u]
      BY <1>0, <1>2 DEF TypeOK
    <3>2. pc'[t] = s
      BY <1>0, <1>2 DEF TypeOK
    <3> QED
      BY <1>0, <1>1, <1>2, <2>1, <3>1, <3>2 DEF Remembered, Live, Watched, TypeOK
  <2>5. Listed'
    BY <1>0, <1>2, <2>1 DEF Listed
  <2> QED
    BY <2>2, <2>3, <2>4, <2>5 DEF IndInv
<1>3. ASSUME EndLoop(t), UNCHANGED <<resources, running, todo>>,
             \/ broken' = broken /\ ~Wanted(t)
             \/ broken' = [broken EXCEPT ![loop[t]] = "failed"]
      PROVE  IndInv'
  <2>1. /\ Watched' = Watched \ {loop[t]} /\ BooksMatch' /\ Remembered'
    BY <1>0, <1>1, <1>3, EndBooks
  <2>2. TypeOK'
    BY <1>0, <1>1, <1>3, EndBooks DEF TypeOK
  <2>3. Listed'
    <3>1. ASSUME running', NEW p \in resources'
          PROVE  broken'[p] # "no" \/ p \in Watched'
      <4>1. running /\ p \in resources /\ p \in Paths
        BY <1>0, <1>3, <3>1 DEF TypeOK
      <4>2. broken[p] # "no" \/ p \in Watched
        BY <1>0, <4>1 DEF Listed
      <4>3. CASE p = loop[t]
        BY <1>0, <1>3, <4>1, <4>3 DEF Wanted, TypeOK
      <4>4. CASE p # loop[t]
        BY <1>0, <1>3, <2>1, <4>1, <4>2, <4>4 DEF TypeOK
      <4> QED
        BY <4>3, <4>4
    <3> QED
      BY <1>0, <1>3, <3>1 DEF Listed
  <2> QED
    BY <2>1, <2>2, <2>3 DEF IndInv
<1>4. CASE Begin(t)
  <2>1. idle' = idle \cup {loop[t]}
    BY <1>0, <1>1, <1>4 DEF Begin, BooksMatch
  <2> QED
    BY <1>2, <1>4, <2>1 DEF Begin, loopFrame
<1>5. CASE Event(t)
  BY <1>2, <1>5 DEF Event, loopFrame
<1>6. CASE HandlerReturns(t)
  <2>1. CASE Wanted(t)
    BY <1>2, <1>6, <2>1 DEF HandlerReturns, loopFrame
  <2>2. CASE ~Wanted(t)
    BY <1>3, <1>6, <2>2 DEF HandlerReturns, loopFrame
  <2> QED
    BY <2>1, <2>2
<1>7. CASE WatchFails(t)
  BY <1>3, <1>7 DEF WatchFails, loopFrame
<1> QED
  BY <1>4, <1>5, <1>6, <1>7 DEF Loop

\* The invariant holds in every reachable state.
THEOREM Inductive == Spec => []IndInv
<1>1. Init => IndInv
  BY DEF Init, IndInv, TypeOK, BooksMatch, Remembered, Listed, Watched, Live
<1>2. IndInv /\ [Next]_vars => IndInv'
  <2>1. ASSUME IndInv, UNCHANGED vars
        PROVE  IndInv'
    BY <2>1 DEF vars, threadVars, IndInv, TypeOK, BooksMatch, Remembered, Listed,
                Watched, Live
  <2> QED
    BY <2>1, OwnerStep, LoopStep DEF Next
<1> QED
  BY <1>1, <1>2, PTL DEF Spec

\* _watching and _idle say of every loop what it does: stop and remove look up
\* the right thread, and kill it only where it waits.
THEOREM BooksCorrect == Spec => []BooksMatch
<1>1. IndInv => BooksMatch
  BY DEF IndInv
<1> QED
  BY <1>1, Inductive, PTL

\* add and start never give a path a second loop, even when they follow a stop
\* or a remove that a busy loop has not noticed yet.
THEOREM OneLoop == Spec => []OneLoopPerPath
<1>1. IndInv => OneLoopPerPath
  BY DEF IndInv, BooksMatch, OneLoopPerPath
<1> QED
  BY <1>1, Inductive, PTL

\* A running watcher has a loop for each path on its list, unless that died.
THEOREM ListedWatched == Spec => []ListedIsWatched
<1>1. IndInv => ListedIsWatched
  BY DEF IndInv, TypeOK, Listed, Remembered, Watched, HasLoop, ListedIsWatched
<1> QED
  BY <1>1, Inductive, PTL

\* Killing the loop of an idle path is not killing one that handles an event.
LEMMA StopSparesHandlers ==
    ASSUME IndInv, NEW p \in Paths, StopWatch(p), NEW t \in Threads,
           pc[t] = "handle"
    PROVE  pc'[t] = "handle"
<1>1. CASE p \notin idle
  BY <1>1 DEF StopWatch
<1>2. CASE p \in idle
  <2>1. p \in Watched /\ watching[p] \in Threads /\ Kill(watching[p])
    BY <1>2 DEF StopWatch, IndInv, TypeOK, Watched
  <2>2. watching[p] # t
    <3>1. loop[t] \in Paths /\ watching[loop[t]] = t /\ loop[t] \notin idle
      BY DEF IndInv, BooksMatch, Live
    <3>2. watching[p] = t => loop[t] = p
      BY <2>1 DEF IndInv, Remembered
    <3> QED
      BY <1>2, <3>1, <3>2
  <2> QED
    BY <2>1, <2>2 DEF Kill, EndLoop, IndInv, TypeOK
<1> QED
  BY <1>1, <1>2

LEMMA OwnerSparesHandlers ==
    ASSUME IndInv, Owner, NEW t \in Threads, pc[t] = "handle"
    PROVE  pc'[t] = "handle"
<1>1. ASSUME NEW f, StartWatch(f) PROVE pc'[t] = "handle"
  <2>1. t \notin {f[p] : p \in DOMAIN f}
    BY <1>1 DEF StartWatch, Fresh
  <2> QED
    BY <1>1, <2>1 DEF StartWatch
<1>2. ASSUME NEW p \in Paths, Add(p) PROVE pc'[t] = "handle"
  BY <1>1, <1>2 DEF Add, threadVars
<1>3. ASSUME NEW p \in Paths, Remove(p) PROVE pc'[t] = "handle"
  BY <1>3, StopSparesHandlers DEF Remove, threadVars
<1>4. ASSUME NEW p \in Paths, StopNext(p) PROVE pc'[t] = "handle"
  BY <1>4, StopSparesHandlers DEF StopNext
<1>5. CASE Start
  BY <1>1, <1>5 DEF Start
<1>6. CASE Stop
  BY <1>6 DEF Stop, threadVars
<1> QED
  BY <1>2, <1>3, <1>4, <1>5, <1>6 DEF Owner

\* No call of the owner takes a thread out of its handler: only the loop itself
\* ends it, when the handler has returned (_stop_watch looks at _idle).
THEOREM HandlersFinish == Spec => HandlerNotInterrupted
<1>1. IndInv /\ [Next]_vars
        => [ \A t \in Threads : pc[t] = "handle" /\ pc'[t] = "free"
               => UNCHANGED <<resources, running, todo>> ]_vars
  <2>1. ASSUME IndInv, Owner, NEW t \in Threads, pc[t] = "handle", pc'[t] = "free"
        PROVE  FALSE
    BY <2>1, OwnerSparesHandlers
  <2>2. ASSUME NEW u \in Threads, Loop(u)
        PROVE  UNCHANGED <<resources, running, todo>>
    BY <2>2 DEF Loop, Begin, Event, HandlerReturns, WatchFails, loopFrame
  <2> QED
    BY <2>1, <2>2 DEF Next
<1> QED
  BY <1>1, Inductive, PTL DEF Spec, HandlerNotInterrupted
=============================================================================
