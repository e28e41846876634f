------------------------- MODULE AsyncHandler_proofs -------------------------
(***************************************************************************)
(* Proofs about AsyncHandler, for any watchers, objects, pool size, queue  *)
(* depth and number of events.  IndInv is inductive; the safety properties *)
(* and the refinement of SerialMailbox follow from it.                     *)
(***************************************************************************)
EXTENDS AsyncHandler, SequenceTheorems, TLAPS

USE StreamAssumption, DepthAssumption, NoThreadAssumption, NoGroupAssumption

\* A live thread serves a group: its index into the maps over Groups is good.
LEMMA LiveServes ==
    ASSUME TypeOK, ThreadShape, NEW t \in Threads, Live(t)
    PROVE  serves[t] \in Groups
BY DEF TypeOK, ThreadShape, Live

LEMMA BlockedIsBit ==
    ASSUME NEW g
    PROVE  Blocked(g) \in {0, 1}
BY DEF Blocked

\* The event a thread is busy with is newer than all that was handled.
LEMMA EventNewer ==
    ASSUME IndInv, NEW t \in Threads, pc[t] \in {"stale", "handle"}
    PROVE  /\ serves[t] \in Groups
           /\ handled[serves[t]] < event[t]
           /\ event[t] <= sent[serves[t]]
<1> DEFINE g == serves[t]
<1>1. TypeOK /\ g \in Groups /\ Live(t)
  BY LiveServes DEF IndInv, Live
<1>2. event[t] + Len(buf[t]) + Blocked(g) <= sent[g] /\ event[t] > handled[g]
  BY <1>1 DEF IndInv, QueueIsTheTail, TailOf
<1>3. /\ event[t] \in Nat /\ Len(buf[t]) \in Nat
      /\ sent[g] \in Nat /\ handled[g] \in Nat /\ Blocked(g) \in {0, 1}
  BY <1>1, BlockedIsBit, LenProperties DEF TypeOK
<1> QED
  BY <1>1, <1>2, <1>3

\* Every step keeps the types and the bound of the queues.
LEMMA TypeStep ==
    ASSUME IndInv, [Next]_vars
    PROVE  TypeOK'
<1> USE DEF TypeOK
<1>0. TypeOK /\ ThreadShape
  BY DEF IndInv
<1>1. ASSUME NEW g \in Groups, NEW t \in Threads, CallNew(g, t)
      PROVE  TypeOK'
  BY <1>0, <1>1 DEF CallNew
<1>2. ASSUME NEW g \in Groups, CallQueued(g)
      PROVE  TypeOK'
  <2>1. queues[g] \in Threads
    BY <1>0, <1>2 DEF CallQueued
  <2>2. buf[queues[g]] \in Seq(Nat) /\ sent[g] + 1 \in Nat
    BY <1>0, <2>1
  <2>3. Append(buf[queues[g]], sent[g] + 1) \in Seq(Nat)
    BY <2>2
  <2>4. Len(Append(buf[queues[g]], sent[g] + 1)) <= QueueDepth
    BY <2>2, <1>2 DEF CallQueued, Full
  <2> QED
    BY <1>0, <1>2, <2>1, <2>2, <2>3, <2>4 DEF CallQueued
<1>3. ASSUME NEW g \in Groups, CallBlocked(g)
      PROVE  TypeOK'
  BY <1>0, <1>3 DEF CallBlocked, threadVars
<1>4. ASSUME NEW w \in Watchers, Unblock(w)
      PROVE  TypeOK'
  <2> DEFINE t == putting[w]
  <2>1. t \in Threads /\ serves[t] \in Groups
    BY <1>0, <1>4, LiveServes DEF Unblock, Live
  <2>2. buf[t] \in Seq(Nat) /\ sent[serves[t]] \in Nat
    BY <1>0, <2>1
  <2>3. Append(buf[t], sent[serves[t]]) \in Seq(Nat)
    BY <2>2
  <2>4. Len(Append(buf[t], sent[serves[t]])) <= QueueDepth
    BY <2>2, <1>4 DEF Unblock, Full
  <2> QED
    BY <1>0, <1>4, <2>1, <2>3, <2>4 DEF Unblock
<1>5. ASSUME NEW g \in Groups, CallExhausted(g)
      PROVE  TypeOK'
  BY <1>0, <1>5 DEF CallExhausted, threadVars
<1>6. ASSUME NEW w \in Watchers, InlineReturns(w)
      PROVE  TypeOK'
  BY <1>0, <1>6 DEF InlineReturns, threadVars
<1>7. ASSUME NEW t \in Threads, Get(t)
      PROVE  TypeOK'
  <2>1. buf[t] \in Seq(Nat) /\ buf[t] # <<>>
    BY <1>0, <1>7 DEF Get, Empty
  <2>2. /\ Head(buf[t]) \in Nat
        /\ Tail(buf[t]) \in Seq(Nat)
        /\ Len(Tail(buf[t])) <= QueueDepth
    BY <2>1, <1>0, HeadTailProperties, LenProperties
  <2> QED
    BY <1>0, <1>7, <2>2 DEF Get
<1>8. ASSUME NEW t \in Threads, GetTimeout(t)
      PROVE  TypeOK'
  BY <1>0, <1>8 DEF GetTimeout
<1>9. ASSUME NEW t \in Threads, Drain(t)
      PROVE  TypeOK'
  <2>1. buf[t] \in Seq(Nat) /\ Len(buf[t]) \in 1..Len(buf[t])
    BY <1>0, <1>9, EmptySeq DEF Drain, Empty
  <2>2. buf[t][Len(buf[t])] \in Nat
    BY <2>1, ElementOfSeq
  <2> QED
    BY <1>0, <1>9, <2>2 DEF Drain
<1>10. ASSUME NEW t \in Threads, Handle(t)
       PROVE  TypeOK'
  BY <1>0, <1>10 DEF Handle
<1>11. ASSUME NEW t \in Threads, Finish(t)
       PROVE  TypeOK'
  BY <1>0, <1>11 DEF Finish
<1>12. ASSUME NEW t \in Threads, Kill(t)
       PROVE  TypeOK'
  <2>1. <<>> \in Seq(Nat) /\ Len(<<>>) <= QueueDepth
    BY EmptySeq
  <2> QED
    BY <1>0, <1>12, <2>1 DEF Kill
<1>13. CASE Stop
  BY <1>0, <1>13 DEF Stop, threadVars
<1>14. CASE UNCHANGED vars
  BY <1>0, <1>14 DEF vars
<1> QED
  BY <1>1, <1>2, <1>3, <1>4, <1>5, <1>6, <1>7, <1>8, <1>9, <1>10, <1>11,
     <1>12, <1>13, <1>14 DEF Next, Call, Run, Quiet

\* Every step keeps the registry and the live threads in agreement.
LEMMA RegistryStep ==
    ASSUME IndInv, [Next]_vars
    PROVE  ThreadShape' /\ OneThreadPerGroup'
<1> DEFINE Reg == ThreadShape /\ OneThreadPerGroup
<1>0. TypeOK /\ Reg
  BY DEF IndInv
<1> USE DEF TypeOK, ThreadShape, OneThreadPerGroup, Live, Empty
<1>1. ASSUME NEW g \in Groups, NEW t \in Threads, CallNew(g, t)
      PROVE  Reg'
  BY <1>0, <1>1 DEF CallNew
<1>2. ASSUME NEW g \in Groups, CallQueued(g)
      PROVE  Reg'
  <2>1. pc[queues[g]] # "free"
    BY <1>0, <1>2 DEF CallQueued
  <2> QED
    BY <1>0, <1>2, <2>1 DEF CallQueued
<1>3. ASSUME NEW g \in Groups, CallBlocked(g)
      PROVE  Reg'
  BY <1>0, <1>3 DEF CallBlocked, threadVars
<1>4. ASSUME NEW w \in Watchers, Unblock(w)
      PROVE  Reg'
  BY <1>0, <1>4 DEF Unblock
<1>5. ASSUME NEW g \in Groups, CallExhausted(g)
      PROVE  Reg'
  BY <1>0, <1>5 DEF CallExhausted, threadVars
<1>6. ASSUME NEW w \in Watchers, InlineReturns(w)
      PROVE  Reg'
  BY <1>0, <1>6 DEF InlineReturns, threadVars
<1>7. ASSUME NEW t \in Threads, Get(t)
      PROVE  Reg'
  BY <1>0, <1>7 DEF Get
<1>8. ASSUME NEW t \in Threads, GetTimeout(t)
      PROVE  Reg'
  BY <1>0, <1>8 DEF GetTimeout
<1>9. ASSUME NEW t \in Threads, Drain(t)
      PROVE  Reg'
  BY <1>0, <1>9 DEF Drain
<1>10. ASSUME NEW t \in Threads, Handle(t)
       PROVE  Reg'
  BY <1>0, <1>10 DEF Handle
<1>11. ASSUME NEW t \in Threads, Finish(t)
       PROVE  Reg'
  BY <1>0, <1>11 DEF Finish
<1>12. ASSUME NEW t \in Threads, Kill(t)
       PROVE  Reg'
  BY <1>0, <1>12 DEF Kill
<1>13. CASE Stop
  BY <1>0, <1>13 DEF Stop, threadVars
<1>14. CASE UNCHANGED vars
  BY <1>0, <1>14 DEF vars
<1> QED
  BY <1>1, <1>2, <1>3, <1>4, <1>5, <1>6, <1>7, <1>8, <1>9, <1>10, <1>11,
     <1>12, <1>13, <1>14 DEF Next, Call, Run, Quiet

\* Every step keeps blocked watchers with the threads of their own objects.
LEMMA CallerStep ==
    ASSUME IndInv, [Next]_vars
    PROVE  CallerShape'
<1>0. TypeOK /\ ThreadShape /\ OneThreadPerGroup /\ CallerShape
  BY DEF IndInv
<1> USE DEF TypeOK, ThreadShape, OneThreadPerGroup, Live, CallerShape
<1>1. ASSUME NEW g \in Groups, NEW t \in Threads, CallNew(g, t)
      PROVE  CallerShape'
  BY <1>0, <1>1 DEF CallNew, Calling
<1>2. ASSUME NEW g \in Groups, CallQueued(g)
      PROVE  CallerShape'
  BY <1>0, <1>2 DEF CallQueued
<1>3. ASSUME NEW g \in Groups, CallBlocked(g)
      PROVE  CallerShape'
  BY <1>0, <1>3 DEF CallBlocked, threadVars
<1>4. ASSUME NEW w \in Watchers, Unblock(w)
      PROVE  CallerShape'
  BY <1>0, <1>4 DEF Unblock
<1>5. ASSUME NEW g \in Groups, CallExhausted(g)
      PROVE  CallerShape'
  BY <1>0, <1>5 DEF CallExhausted, threadVars
<1>6. ASSUME NEW w \in Watchers, InlineReturns(w)
      PROVE  CallerShape'
  BY <1>0, <1>6 DEF InlineReturns, threadVars
<1>7. ASSUME NEW t \in Threads, Get(t)
      PROVE  CallerShape'
  BY <1>0, <1>7 DEF Get
<1>8. ASSUME NEW t \in Threads, GetTimeout(t)
      PROVE  CallerShape'
  BY <1>0, <1>8 DEF GetTimeout, PutBlocked
<1>9. ASSUME NEW t \in Threads, Drain(t)
      PROVE  CallerShape'
  BY <1>0, <1>9 DEF Drain
<1>10. ASSUME NEW t \in Threads, Handle(t)
       PROVE  CallerShape'
  BY <1>0, <1>10 DEF Handle
<1>11. ASSUME NEW t \in Threads, Finish(t)
       PROVE  CallerShape'
  <2>1. event[t] <= sent[serves[t]]
    BY <1>11, EventNewer DEF Finish
  <2> QED
    BY <1>0, <1>11, <2>1 DEF Finish
<1>12. ASSUME NEW t \in Threads, Kill(t)
       PROVE  CallerShape'
  BY <1>0, <1>12 DEF Kill
<1>13. CASE Stop
  BY <1>0, <1>13 DEF Stop, threadVars
<1>14. CASE UNCHANGED vars
  BY <1>0, <1>14 DEF vars
<1> QED
  BY <1>1, <1>2, <1>3, <1>4, <1>5, <1>6, <1>7, <1>8, <1>9, <1>10, <1>11,
     <1>12, <1>13, <1>14 DEF Next, Call, Run, Quiet

\* TailOf as a relation between values: queue, blocked events, sent, handled,
\* place of the thread and event in its hands.
QTail(q, b, s, d, p, e) ==
    /\ \A i \in 1..Len(q) : q[i] + Len(q) + b = s + i
    /\ d + Len(q) + b <= s
    /\ p \in {"stale", "handle"} => e > d /\ e + Len(q) + b <= s

\* What the operations on a queue do to that relation.
LEMMA QTailNew ==
    ASSUME NEW s \in Nat, NEW d \in Nat, NEW e, d <= s
    PROVE  QTail(<<s + 1>>, 0, s + 1, d, "get", e)
BY DEF QTail

LEMMA QTailAppend ==
    ASSUME NEW q \in Seq(Nat), NEW s \in Nat, NEW d \in Nat, NEW p,
           NEW e \in Nat, QTail(q, 0, s, d, p, e)
    PROVE  QTail(Append(q, s + 1), 0, s + 1, d, p, e)
<1>0. PICK r : r = Append(q, s + 1)
  OBVIOUS
<1>1. /\ Len(q) \in Nat /\ Len(r) = Len(q) + 1 /\ r[Len(q) + 1] = s + 1
      /\ \A i \in 1..Len(q) : q[i] \in Nat /\ r[i] = q[i]
  BY <1>0, LenProperties, ElementOfSeq
<1>2. \A i \in 1..Len(q) : q[i] + Len(q) = s + i
  BY <1>1 DEF QTail
<1>3. \A i \in 1..Len(r) : r[i] + Len(r) + 0 = s + 1 + i
  <2> TAKE i \in 1..Len(r)
  <2>1. CASE i \in 1..Len(q)
    <3>1. PICK a \in Nat : a = q[i]
      BY <1>1, <2>1
    <3>2. a + Len(q) = s + i /\ r[i] = a
      BY <1>1, <1>2, <2>1, <3>1
    <3>3. Len(q) \in Nat /\ Len(r) = Len(q) + 1 /\ i \in Nat
      BY <1>1, <2>1
    <3>4. PICK n \in Nat : n = Len(q)
      BY <3>3
    <3>5. a + n = s + i
      BY <3>2, <3>4
    <3>6. a + (n + 1) + 0 = s + 1 + i
      BY <3>3, <3>5
    <3> QED
      BY <3>2, <3>3, <3>4, <3>6
  <2>2. CASE i = Len(q) + 1
    BY <1>1, <2>2
  <2> QED
    BY <1>1, <2>1, <2>2
<1>4. /\ d + Len(r) + 0 <= s + 1
      /\ p \in {"stale", "handle"} => e > d /\ e + Len(r) + 0 <= s + 1
  BY <1>1 DEF QTail
<1> QED
  BY <1>0, <1>3, <1>4 DEF QTail

LEMMA QTailBlock ==
    ASSUME NEW q \in Seq(Nat), NEW s \in Nat, NEW d \in Nat, NEW p,
           NEW e \in Nat, QTail(q, 0, s, d, p, e)
    PROVE  QTail(q, 1, s + 1, d, p, e)
<1>1. Len(q) \in Nat /\ \A i \in 1..Len(q) : q[i] \in Nat
  BY LenProperties, ElementOfSeq
<1> QED
  BY <1>1 DEF QTail

LEMMA QTailUnblock ==
    ASSUME NEW q \in Seq(Nat), NEW s \in Nat, NEW d \in Nat, NEW p,
           NEW e \in Nat, QTail(q, 1, s, d, p, e)
    PROVE  QTail(Append(q, s), 0, s, d, p, e)
<1>1. /\ Len(q) \in Nat /\ Len(Append(q, s)) = Len(q) + 1
      /\ \A i \in 1..Len(q) : q[i] \in Nat /\ Append(q, s)[i] = q[i]
      /\ Append(q, s)[Len(q) + 1] = s
  BY LenProperties, ElementOfSeq
<1>2. \A i \in 1..Len(q) : q[i] + Len(q) + 1 = s + i
  BY <1>1 DEF QTail
<1>3. \A i \in 1..(Len(q) + 1) : i \in 1..Len(q) \/ i = Len(q) + 1
  BY <1>1
<1>4. \A i \in 1..(Len(q) + 1) : Append(q, s)[i] + (Len(q) + 1) + 0 = s + i
  <2> TAKE i \in 1..(Len(q) + 1)
  <2>1. CASE i \in 1..Len(q)
    <3>1. q[i] + Len(q) + 1 = s + i /\ q[i] \in Nat /\ i \in Nat
      BY <1>1, <1>2, <2>1
    <3> QED
      BY <1>1, <2>1, <3>1
  <2>2. CASE i = Len(q) + 1
    BY <1>1, <2>2
  <2> QED
    BY <1>3, <2>1, <2>2
<1>5. /\ d + (Len(q) + 1) + 0 <= s
      /\ p \in {"stale", "handle"} => e > d /\ e + (Len(q) + 1) + 0 <= s
  BY <1>1 DEF QTail
<1> QED
  BY <1>1, <1>4, <1>5 DEF QTail

LEMMA QTailGet ==
    ASSUME NEW q \in Seq(Nat), q # <<>>, NEW b \in {0, 1}, NEW s \in Nat,
           NEW d \in Nat, NEW p, NEW e, QTail(q, b, s, d, p, e)
    PROVE  QTail(Tail(q), b, s, d, "stale", Head(q))
<1> PICK r \in Seq(Nat) : r = Tail(q)
  BY HeadTailProperties
<1>1. /\ Len(q) \in Nat \ {0} /\ Len(r) = Len(q) - 1 /\ Head(q) = q[1]
      /\ \A i \in 1..Len(q) : q[i] \in Nat
      /\ \A i \in 1..Len(r) : r[i] = q[i + 1] /\ i + 1 \in 1..Len(q)
  BY LenProperties, ElementOfSeq, EmptySeq, HeadTailProperties
<1>2. \A i \in 1..Len(q) : q[i] + Len(q) + b = s + i
  BY DEF QTail
<1>3. \A i \in 1..Len(r) : r[i] + Len(r) + b = s + i
  <2> TAKE i \in 1..Len(r)
  <2>1. PICK a \in Nat : a = q[i + 1]
    BY <1>1
  <2>2. a + Len(q) + b = s + (i + 1) /\ r[i] = a
    BY <1>1, <1>2, <2>1
  <2>3. Len(q) \in Nat /\ Len(r) = Len(q) - 1 /\ i \in Nat
    BY <1>1
  <2>4. a + (Len(q) - 1) + b = s + i
    BY <2>2, <2>3
  <2> QED
    BY <2>2, <2>3, <2>4
<1>4. q[1] + Len(q) + b = s + 1 /\ q[1] \in Nat
  BY <1>1, <1>2
<1>5. d + Len(q) + b <= s
  BY DEF QTail
<1>6. /\ d + Len(r) + b <= s
      /\ Head(q) > d /\ Head(q) + Len(r) + b <= s
  BY <1>1, <1>4, <1>5
<1> QED
  BY <1>3, <1>6 DEF QTail

LEMMA QTailDrain ==
    ASSUME NEW q \in Seq(Nat), q # <<>>, NEW b \in {0, 1}, NEW s \in Nat,
           NEW d \in Nat, NEW p, NEW e, QTail(q, b, s, d, p, e)
    PROVE  QTail(<<>>, b, s, d, "stale", q[Len(q)])
<1>1. Len(q) \in Nat \ {0} /\ q[Len(q)] \in Nat
  BY LenProperties, ElementOfSeq, EmptySeq
<1>2. q[Len(q)] + Len(q) + b = s + Len(q) /\ d + Len(q) + b <= s
  BY <1>1 DEF QTail
<1>3. /\ d + 0 + b <= s
      /\ q[Len(q)] > d /\ q[Len(q)] + 0 + b <= s
  BY <1>1, <1>2
<1> QED
  BY <1>3 DEF QTail

LEMMA QTailPlace ==
    ASSUME NEW q, NEW b, NEW s, NEW d, NEW e, QTail(q, b, s, d, "stale", e)
    PROVE  QTail(q, b, s, d, "handle", e)
BY DEF QTail

LEMMA QTailFinish ==
    ASSUME NEW q, NEW b, NEW s, NEW d, NEW e, QTail(q, b, s, d, "handle", e)
    PROVE  QTail(q, b, s, e, "get", e)
BY DEF QTail

LEMMA TailNow ==
    ASSUME NEW t \in Threads, NEW h, h = serves[t]
    PROVE  TailOf(t) <=>
           QTail(buf[t], Blocked(h), sent[h], handled[h], pc[t], event[t])
BY DEF TailOf, QTail

LEMMA TailNext ==
    ASSUME NEW t \in Threads, NEW h, h = serves'[t]
    PROVE  TailOf(t)' <=>
           QTail(buf'[t], Blocked(h)', sent'[h], handled'[h], pc'[t], event'[t])
BY DEF TailOf, QTail, Blocked

\* A step that touches neither a thread nor its object keeps its queue.
LEMMA TailFrame ==
    ASSUME NEW t \in Threads, NEW h, h = serves[t], TailOf(t),
           serves'[t] = serves[t], buf'[t] = buf[t], pc'[t] = pc[t],
           event'[t] = event[t], sent'[h] = sent[h], handled'[h] = handled[h],
           Blocked(h)' = Blocked(h)
    PROVE  TailOf(t)'
BY TailNow, TailNext

\* Every step keeps the queues gapless and ending with the newest event.
LEMMA TailStep ==
    ASSUME IndInv, [Next]_vars
    PROVE  QueueIsTheTail'
<1> SUFFICES ASSUME NEW t \in Threads, Live(t)'
             PROVE  TailOf(t)'
  BY DEF QueueIsTheTail, Live
<1>h. PICK h : h = serves[t]
  OBVIOUS
<1>0. /\ TypeOK /\ ThreadShape /\ OneThreadPerGroup /\ CallerShape
      /\ Live(t) => TailOf(t) /\ h \in Groups
      /\ Live(t) =>
           QTail(buf[t], Blocked(h), sent[h], handled[h], pc[t], event[t])
      /\ Blocked(h) \in {0, 1}
  BY <1>h, TailNow, LiveServes, BlockedIsBit DEF IndInv, QueueIsTheTail
<1>t. /\ buf[t] \in Seq(Nat) /\ Len(buf[t]) \in Nat
      /\ \A i \in 1..Len(buf[t]) : buf[t][i] \in Nat
      /\ event[t] \in Nat
      /\ h \in Groups => sent[h] \in Nat /\ handled[h] \in Nat
  BY <1>h, <1>0, LenProperties, ElementOfSeq DEF TypeOK
<1> USE DEF TypeOK, ThreadShape, OneThreadPerGroup, Live
<1>1. ASSUME NEW g \in Groups, NEW u \in Threads, CallNew(g, u)
      PROVE  TailOf(t)'
  <2>1. CASE t = u
    <3>1. /\ serves'[t] = g /\ buf'[t] = <<sent[g] + 1>> /\ pc'[t] = "get"
          /\ sent'[g] = sent[g] + 1 /\ handled'[g] = handled[g]
          /\ sent[g] \in Nat /\ handled[g] \in Nat
      BY <1>h, <1>0, <1>1, <2>1 DEF CallNew
    <3>2. Blocked(g)' = 0
      BY <1>h, <1>0, <1>1 DEF CallNew, Calling, Blocked
    <3>3. handled[g] <= sent[g]
      BY <1>0 DEF CallerShape
    <3> QED
      <4>1. QTail(<<sent[g] + 1>>, 0, sent[g] + 1, handled[g], "get", event'[t])
        BY <3>1, <3>3, QTailNew
      <4> QED
        BY <3>1, <3>2, <4>1, TailNext
  <2>2. CASE t # u
    <3>1. Live(t) /\ h # g /\ UNCHANGED <<serves[t], buf[t], pc[t], event[t]>>
          /\ UNCHANGED <<sent[h], handled[h]>>
      BY <1>h, <1>0, <1>1, <2>2 DEF CallNew
    <3>2. Blocked(h)' = Blocked(h)
      BY <1>h, <1>0, <1>1, <3>1 DEF CallNew, Blocked
    <3> QED
      BY <1>h, <1>0, <3>1, <3>2, TailFrame
  <2> QED
    BY <2>1, <2>2
<1>2. ASSUME NEW g \in Groups, CallQueued(g)
      PROVE  TailOf(t)'
  <2>0. Live(t) /\ Blocked(h)' = Blocked(h)
    BY <1>h, <1>0, <1>2 DEF CallQueued, Blocked
  <2>1. CASE t = queues[g]
    <3>1. /\ h = g /\ buf'[t] = Append(buf[t], sent[g] + 1)
          /\ sent'[g] = sent[g] + 1
          /\ UNCHANGED <<serves[t], pc[t], event[t], handled[g]>>
      BY <1>h, <1>0, <1>2, <2>1 DEF CallQueued
    <3>2. Blocked(h) = 0 /\ serves'[t] = h /\ handled'[h] = handled[h]
      BY <1>h, <1>0, <1>2, <2>0, <3>1 DEF CallQueued, Calling, Blocked
    <3>3. QTail(Append(buf[t], sent[h] + 1), 0, sent[h] + 1, handled[h], pc[t],
                event[t])
      BY <1>0, <1>t, <2>0, <3>2, QTailAppend
    <3> QED
      BY <2>0, <3>1, <3>2, <3>3, TailNext
  <2>2. CASE t # queues[g]
    <3>1. h # g /\ UNCHANGED <<serves[t], buf[t], pc[t], event[t]>>
          /\ UNCHANGED <<sent[h], handled[h]>>
      BY <1>h, <1>0, <1>2, <2>0, <2>2 DEF CallQueued
    <3> QED
      BY <1>h, <1>0, <2>0, <3>1, TailFrame
  <2> QED
    BY <2>1, <2>2
<1>3. ASSUME NEW g \in Groups, CallBlocked(g)
      PROVE  TailOf(t)'
  <2>0. Live(t) /\ UNCHANGED <<serves[t], buf[t], pc[t], event[t], handled[h]>>
    BY <1>h, <1>0, <1>3 DEF CallBlocked, threadVars
  <2>1. CASE h = g
    <3>1. Blocked(g) = 0 /\ Blocked(g)' = 1 /\ sent'[g] = sent[g] + 1
      BY <1>h, <1>0, <1>3, <2>0, <2>1 DEF CallBlocked, threadVars, Calling, Blocked
    <3>2. serves'[t] = h
      BY <1>h, <2>0
    <3>3. QTail(buf[t], 1, sent[h] + 1, handled[h], pc[t], event[t])
      BY <1>0, <1>t, <2>0, <2>1, <3>1, QTailBlock
    <3> QED
      BY <2>0, <2>1, <3>1, <3>2, <3>3, TailNext
  <2>2. CASE h # g
    <3>1. sent'[h] = sent[h]
      BY <1>h, <1>0, <1>3, <2>2 DEF CallBlocked
    <3>2. Blocked(h)' = Blocked(h)
      BY <1>h, <1>0, <1>3, <2>0, <2>2 DEF CallBlocked, threadVars, Calling, Blocked
    <3> QED
      BY <1>h, <1>0, <2>0, <3>1, <3>2, TailFrame
  <2> QED
    BY <2>1, <2>2
<1>4. ASSUME NEW w \in Watchers, Unblock(w)
      PROVE  TailOf(t)'
  <2>0. Live(t) /\ UNCHANGED <<serves[t], pc[t], event[t], handled[h], sent[h]>>
    BY <1>h, <1>0, <1>4 DEF Unblock
  <2>1. CASE t = putting[w]
    <3>1. Stream[h] = w
      BY <1>h, <1>0, <1>4, <2>0, <2>1 DEF Unblock, CallerShape
    <3>2. Blocked(h) = 1 /\ Blocked(h)' = 0 /\ buf'[t] = Append(buf[t], sent[h])
      BY <1>h, <1>0, <1>4, <2>0, <2>1, <3>1 DEF Unblock, Blocked
    <3>3. serves'[t] = h
      BY <1>h, <2>0
    <3>4. QTail(Append(buf[t], sent[h]), 0, sent[h], handled[h], pc[t], event[t])
      BY <1>0, <1>t, <2>0, <3>2, QTailUnblock
    <3> QED
      BY <2>0, <3>2, <3>3, <3>4, TailNext
  <2>2. CASE t # putting[w]
    <3>1. buf'[t] = buf[t]
      BY <1>h, <1>0, <1>4, <2>2 DEF Unblock
    <3>2. Blocked(h)' = Blocked(h)
      BY <1>h, <1>0, <1>4, <2>0, <2>2 DEF Unblock, Blocked
    <3> QED
      BY <1>h, <1>0, <2>0, <3>1, <3>2, TailFrame
  <2> QED
    BY <2>1, <2>2
<1>5. ASSUME NEW g \in Groups, CallExhausted(g)
      PROVE  TailOf(t)'
  <2>1. Live(t) /\ UNCHANGED <<serves[t], buf[t], pc[t], event[t], handled[h]>>
    BY <1>h, <1>0, <1>5 DEF CallExhausted, threadVars
  <2>2. h # g
    BY <1>h, <1>0, <1>5, <2>1 DEF CallExhausted
  <2>3. sent'[h] = sent[h] /\ Blocked(h)' = Blocked(h)
    BY <1>h, <1>0, <1>5, <2>1, <2>2 DEF CallExhausted, threadVars, Blocked
  <2> QED
    BY <1>h, <1>0, <2>1, <2>3, TailFrame
<1>6. ASSUME NEW w \in Watchers, InlineReturns(w)
      PROVE  TailOf(t)'
  BY <1>h, <1>0, <1>6, TailFrame DEF InlineReturns, threadVars, Blocked
<1>7. ASSUME NEW u \in Threads, Get(u)
      PROVE  TailOf(t)'
  <2>0. /\ Live(t) /\ UNCHANGED <<serves[t], sent[h], handled[h]>>
        /\ Blocked(h)' = Blocked(h) /\ serves'[t] = h
    BY <1>h, <1>0, <1>7 DEF Get, Blocked
  <2>1. CASE t = u
    <3>1. /\ event'[t] = Head(buf[t]) /\ buf'[t] = Tail(buf[t]) /\ buf[t] # <<>>
          /\ pc'[t] = "stale"
      BY <1>0, <1>7, <2>1 DEF Get, Empty
    <3>2. QTail(Tail(buf[t]), Blocked(h), sent[h], handled[h], "stale",
                Head(buf[t]))
      BY <1>0, <1>t, <2>0, <3>1, QTailGet
    <3> QED
      BY <2>0, <3>1, <3>2, TailNext
  <2>2. CASE t # u
    BY <1>h, <1>0, <1>7, <2>0, <2>2, TailFrame DEF Get
  <2> QED
    BY <2>1, <2>2
<1>8. ASSUME NEW u \in Threads, GetTimeout(u) \/ Kill(u)
      PROVE  TailOf(t)'
  <2>1. t # u /\ Live(t)
    BY <1>h, <1>0, <1>8 DEF GetTimeout, Kill
  <2>2. UNCHANGED <<serves[t], buf[t], pc[t], event[t], handled[h], sent[h]>>
    BY <1>h, <1>0, <1>8, <2>1 DEF GetTimeout, Kill
  <2>3. serves[u] # h /\ serves'[u] # h
    BY <1>h, <1>0, <1>8, <2>1 DEF GetTimeout, Kill
  <2>4. Blocked(h)' = Blocked(h)
    BY <1>h, <1>0, <1>8, <2>3 DEF GetTimeout, Kill, Blocked
  <2> QED
    BY <1>h, <1>0, <2>1, <2>2, <2>4, TailFrame
<1>9. ASSUME NEW u \in Threads, Drain(u)
      PROVE  TailOf(t)'
  <2>0. /\ Live(t) /\ UNCHANGED <<serves[t], sent[h], handled[h]>>
        /\ Blocked(h)' = Blocked(h) /\ serves'[t] = h
    BY <1>h, <1>0, <1>9 DEF Drain, Blocked
  <2>1. CASE t = u
    <3>1. /\ event'[t] = buf[t][Len(buf[t])] /\ buf'[t] = <<>> /\ buf[t] # <<>>
          /\ pc'[t] = "stale"
      BY <1>0, <1>9, <2>1 DEF Drain, Empty
    <3>2. QTail(<<>>, Blocked(h), sent[h], handled[h], "stale",
                buf[t][Len(buf[t])])
      BY <1>0, <1>t, <2>0, <3>1, QTailDrain
    <3> QED
      BY <2>0, <3>1, <3>2, TailNext
  <2>2. CASE t # u
    BY <1>h, <1>0, <1>9, <2>0, <2>2, TailFrame DEF Drain
  <2> QED
    BY <2>1, <2>2
<1>10. ASSUME NEW u \in Threads, Handle(u)
       PROVE  TailOf(t)'
  <2>0. /\ Live(t) /\ UNCHANGED <<serves[t], buf[t], event[t], sent[h], handled[h]>>
        /\ Blocked(h)' = Blocked(h) /\ serves'[t] = h
    BY <1>h, <1>0, <1>10 DEF Handle, Blocked
  <2>1. pc'[t] = pc[t] \/ (pc[t] = "stale" /\ pc'[t] = "handle")
    BY <1>0, <1>10 DEF Handle
  <2>2. QTail(buf[t], Blocked(h), sent[h], handled[h], pc'[t], event[t])
    BY <1>0, <2>0, <2>1, QTailPlace
  <2> QED
    BY <2>0, <2>2, TailNext
<1>11. ASSUME NEW u \in Threads, Finish(u)
       PROVE  TailOf(t)'
  <2>0. /\ Live(t) /\ UNCHANGED <<serves[t], buf[t], event[t], sent[h]>>
        /\ Blocked(h)' = Blocked(h) /\ serves'[t] = h
    BY <1>h, <1>0, <1>11 DEF Finish, Blocked
  <2>1. CASE t = u
    <3>1. handled'[h] = event[t] /\ pc[t] = "handle" /\ pc'[t] = "get"
      BY <1>h, <1>0, <1>11, <2>0, <2>1 DEF Finish
    <3>2. QTail(buf[t], Blocked(h), sent[h], event[t], "get", event[t])
      BY <1>0, <2>0, <3>1, QTailFinish
    <3> QED
      BY <2>0, <3>1, <3>2, TailNext
  <2>2. CASE t # u
    <3>1. h # serves[u]
      BY <1>h, <1>0, <1>11, <2>0, <2>2 DEF Finish
    <3>2. UNCHANGED <<pc[t], handled[h]>>
      BY <1>h, <1>0, <1>11, <2>2, <3>1 DEF Finish
    <3> QED
      BY <1>h, <1>0, <2>0, <3>2, TailFrame
  <2> QED
    BY <2>1, <2>2
<1>12. CASE Stop
  BY <1>h, <1>0, <1>12, TailFrame DEF Stop, threadVars, Blocked
<1>13. CASE UNCHANGED vars
  BY <1>h, <1>0, <1>13, TailFrame DEF vars, Blocked
<1> QED
  BY <1>1, <1>2, <1>3, <1>4, <1>5, <1>6, <1>7, <1>8, <1>9, <1>10, <1>11,
     <1>12, <1>13 DEF Next, Call, Run, Quiet

LEMMA LastOfAppend ==
    ASSUME NEW q \in Seq(Nat), NEW x \in Nat
    PROVE  Append(q, x) # <<>> /\ Append(q, x)[Len(Append(q, x))] = x
BY AppendProperties, LenProperties

LEMMA LastOfTail ==
    ASSUME NEW q \in Seq(Nat), q # <<>>
    PROVE  \/ Tail(q) = <<>> /\ Head(q) = q[Len(q)]
           \/ Tail(q) # <<>> /\ Tail(q)[Len(Tail(q))] = q[Len(q)]
<1>0. PICK r \in Seq(Nat) : r = Tail(q)
  BY HeadTailProperties
<1>1. /\ Len(r) = Len(q) - 1 /\ Len(q) \in Nat \ {0} /\ Head(q) = q[1]
      /\ \A i \in 1..Len(r) : r[i] = q[i + 1]
  BY <1>0, HeadTailProperties, EmptySeq
<1>2. CASE r = <<>>
  <2>1. Len(q) = 1
    BY <1>1, <1>2, EmptySeq
  <2> QED
    BY <1>0, <1>1, <1>2, <2>1
<1>3. CASE r # <<>>
  <2>1. Len(r) \in Nat \ {0}
    BY <1>3, EmptySeq
  <2>2. Len(r) \in 1..Len(r) /\ Len(r) + 1 = Len(q)
    BY <1>1, <2>1
  <2>3. r[Len(r)] = q[Len(q)]
    BY <1>1, <2>2
  <2> QED
    BY <1>0, <1>3, <2>3
<1> QED
  BY <1>2, <1>3

\* If an object's queue is not empty, its newest event is the last in it, or
\* with the watcher blocked on it.
LEMMA NewestIsLast ==
    ASSUME IndInv, NEW g \in Groups, NEW t \in Threads, queues[g] = t,
           buf[t] # <<>>
    PROVE  putting[Stream[g]] = t \/ buf[t][Len(buf[t])] = sent[g]
<1>0. /\ TypeOK /\ ThreadShape /\ OneThreadPerGroup /\ t # NoThread
      /\ serves[t] = g /\ Live(t)
  BY DEF IndInv, TypeOK, OneThreadPerGroup
<1>1. QTail(buf[t], Blocked(g), sent[g], handled[g], pc[t], event[t])
  BY <1>0, TailNow DEF IndInv, QueueIsTheTail
<1>2. Len(buf[t]) \in Nat \ {0} /\ buf[t][Len(buf[t])] \in Nat /\ sent[g] \in Nat
  BY <1>0, EmptySeq, ElementOfSeq DEF TypeOK
<1>3. CASE putting[Stream[g]] = NoThread
  <2>1. Blocked(g) = 0
    BY <1>3 DEF Blocked
  <2>2. buf[t][Len(buf[t])] + Len(buf[t]) + 0 = sent[g] + Len(buf[t])
    BY <1>1, <1>2, <2>1 DEF QTail
  <2> QED
    BY <1>2, <2>2
<1>4. CASE putting[Stream[g]] # NoThread
  <2> DEFINE u == putting[Stream[g]]
  <2>1. u \in Threads
    BY <1>0, <1>4 DEF TypeOK
  <2>2. CASE serves[u] = g
    BY <1>0, <2>1, <2>2 DEF ThreadShape, OneThreadPerGroup, Live
  <2>3. CASE serves[u] # g
    <3>1. Blocked(g) = 0
      BY <2>3 DEF Blocked
    <3>2. buf[t][Len(buf[t])] + Len(buf[t]) + 0 = sent[g] + Len(buf[t])
      BY <1>1, <1>2, <3>1 DEF QTail
    <3> QED
      BY <1>2, <3>2
  <2> QED
    BY <2>2, <2>3
<1> QED
  BY <1>3, <1>4

\* A step that leaves an object, its thread and its watcher alone keeps its
\* newest event.
LEMMA KeptFrame ==
    ASSUME NEW g \in Groups, Kept(g),
           UNCHANGED <<handled[g], lost[g], sent[g], queues[g]>>,
           inline'[Stream[g]] = inline[Stream[g]],
           putting'[Stream[g]] = putting[Stream[g]],
           queues[g] # NoThread =>
              UNCHANGED <<buf[queues[g]], pc[queues[g]], event[queues[g]]>>
    PROVE  Kept(g)'
BY DEF Kept, Empty

\* No step of a service that goes on forgets the newest event of an object.
LEMMA NewestStep ==
    ASSUME IndInv, [Next]_vars
    PROVE  NewestEventKept'
<1> SUFFICES ASSUME ~stopping', NEW g \in Groups
             PROVE  Kept(g)'
  BY DEF NewestEventKept
<1>s. ~stopping
  BY DEF Next, Call, Run, Quiet, vars, threadVars, CallNew, CallQueued,
         CallBlocked, CallExhausted, Unblock, InlineReturns, Get, GetTimeout,
         Drain, Handle, Finish, Stop, Kill
<1>0. /\ TypeOK /\ ThreadShape /\ OneThreadPerGroup /\ CallerShape /\ Kept(g)
      /\ Stream[g] \in Watchers
  BY <1>s DEF IndInv, NewestEventKept
<1> USE DEF TypeOK, ThreadShape, OneThreadPerGroup, Live, Empty
<1>1. ASSUME NEW k \in Groups, NEW u \in Threads, CallNew(k, u)
      PROVE  Kept(g)'
  <2>1. CASE g = k
    <3>1. /\ queues'[g] = u /\ buf'[u] = <<sent[g] + 1>>
          /\ sent'[g] = sent[g] + 1
      BY <1>0, <1>1, <2>1 DEF CallNew
    <3> QED
      BY <3>1 DEF Kept
  <2>2. CASE g # k
    <3>1. queues[g] # u
      BY <1>0, <1>1 DEF CallNew
    <3> QED
      <4>1. /\ UNCHANGED <<handled, lost, inline, putting, event>>
            /\ sent'[g] = sent[g] /\ queues'[g] = queues[g]
            /\ \A t \in Threads : t # u => UNCHANGED <<buf[t], pc[t]>>
        BY <1>0, <1>1, <2>2 DEF CallNew
      <4> QED
        <5>1. queues[g] # NoThread =>
                 UNCHANGED <<buf[queues[g]], pc[queues[g]], event[queues[g]]>>
          BY <1>0, <3>1, <4>1
        <5> QED
          BY <1>0, <4>1, <5>1, KeptFrame
  <2> QED
    BY <2>1, <2>2
<1>2. ASSUME NEW k \in Groups, CallQueued(k)
      PROVE  Kept(g)'
  <2>1. CASE g = k
    <3>1. /\ queues'[g] = queues[g] /\ queues[g] \in Threads
          /\ buf'[queues[g]] = Append(buf[queues[g]], sent[g] + 1)
          /\ buf[queues[g]] \in Seq(Nat) /\ sent[g] + 1 \in Nat
          /\ sent'[g] = sent[g] + 1
      BY <1>0, <1>2, <2>1 DEF CallQueued
    <3>2. /\ Append(buf[queues[g]], sent[g] + 1) # <<>>
          /\ Append(buf[queues[g]], sent[g] + 1)
                [Len(Append(buf[queues[g]], sent[g] + 1))] = sent[g] + 1
      BY <3>1, LastOfAppend
    <3> QED
      BY <3>1, <3>2 DEF Kept
  <2>2. CASE g # k
    <3>1. queues[g] # queues[k]
      BY <1>0, <1>2, <2>2 DEF CallQueued
    <3> QED
      BY <1>0, <1>2, <2>2, <3>1, KeptFrame DEF CallQueued
  <2> QED
    BY <2>1, <2>2
<1>3. ASSUME NEW k \in Groups, CallBlocked(k)
      PROVE  Kept(g)'
  <2>1. CASE g = k
    BY <1>0, <1>3, <2>1 DEF CallBlocked, threadVars, Kept
  <2>2. CASE g # k /\ Stream[g] = Stream[k]
    <3>1. putting[Stream[g]] = NoThread
      BY <1>3, <2>2 DEF CallBlocked, Calling
    <3>2. /\ UNCHANGED <<queues, pc, buf, event, inline, handled, lost>>
          /\ sent'[g] = sent[g]
      BY <1>0, <1>3, <2>2 DEF CallBlocked, threadVars
    <3> QED
      BY <1>0, <3>1, <3>2 DEF Kept
  <2>3. CASE g # k /\ Stream[g] # Stream[k]
    BY <1>0, <1>3, <2>3, KeptFrame DEF CallBlocked, threadVars
  <2> QED
    BY <2>1, <2>2, <2>3
<1>4. ASSUME NEW w \in Watchers, Unblock(w)
      PROVE  Kept(g)'
  <2> DEFINE u == putting[w]
  <2>1. /\ u \in Threads /\ serves[u] \in Groups /\ queues[serves[u]] = u
        /\ buf[u] \in Seq(Nat) /\ Stream[serves[u]] = w
    BY <1>0, <1>4 DEF Unblock, CallerShape
  <2>2. CASE g = serves[u]
    <3>1. /\ queues'[g] = u /\ u # NoThread /\ sent'[g] = sent[g] /\ sent[g] \in Nat
          /\ buf'[u] = Append(buf[u], sent[g])
      BY <1>0, <1>4, <2>1, <2>2 DEF Unblock
    <3>2. /\ Append(buf[u], sent[g]) # <<>>
          /\ Append(buf[u], sent[g])[Len(Append(buf[u], sent[g]))] = sent[g]
      BY <2>1, <3>1, LastOfAppend
    <3> QED
      BY <3>1, <3>2 DEF Kept
  <2>3. CASE g # serves[u]
    <3>1. queues[g] # u
      BY <1>0, <2>1, <2>3
    <3>2. /\ UNCHANGED <<queues, pc, event, inline, sent, handled, lost>>
          /\ \A t \in Threads : t # u => buf'[t] = buf[t]
          /\ putting[Stream[g]] # u => putting'[Stream[g]] = putting[Stream[g]]
      BY <1>0, <1>4 DEF Unblock
    <3> QED
      BY <1>0, <3>1, <3>2 DEF Kept
  <2> QED
    BY <2>2, <2>3
<1>5. ASSUME NEW k \in Groups, CallExhausted(k)
      PROVE  Kept(g)'
  <2>1. CASE g = k
    BY <1>0, <1>5, <2>1 DEF CallExhausted, threadVars, Kept
  <2>2. CASE g # k
    <3>1. inline[Stream[k]] = NoGroup
      BY <1>5 DEF CallExhausted, Calling
    <3>2. /\ UNCHANGED <<queues, pc, buf, event, putting, handled, lost>>
          /\ sent'[g] = sent[g]
          /\ Stream[g] # Stream[k] => inline'[Stream[g]] = inline[Stream[g]]
      BY <1>0, <1>5, <2>2 DEF CallExhausted, threadVars
    <3> QED
      BY <1>0, <3>1, <3>2 DEF Kept
  <2> QED
    BY <2>1, <2>2
<1>6. ASSUME NEW w \in Watchers, InlineReturns(w)
      PROVE  Kept(g)'
  <2>1. /\ UNCHANGED <<queues, pc, buf, event, putting, sent, handled>>
        /\ g = inline[w] => lost'[g] = sent[g]
        /\ g # inline[w] => lost'[g] = lost[g]
        /\ g # inline[w] => inline[Stream[g]] # g \/ inline'[Stream[g]] = g
    BY <1>0, <1>6 DEF InlineReturns, threadVars
  <2> QED
    BY <1>0, <2>1 DEF Kept
<1>7. ASSUME NEW u \in Threads, Get(u)
      PROVE  Kept(g)'
  <2>1. CASE queues[g] = u
    <3>1. putting[Stream[g]] = u \/ buf[u][Len(buf[u])] = sent[g]
      BY <1>7, <2>1, NewestIsLast DEF Get
    <3>2. /\ queues'[g] = u /\ u # NoThread /\ UNCHANGED <<sent, putting>>
          /\ buf'[u] = Tail(buf[u]) /\ event'[u] = Head(buf[u]) /\ pc'[u] = "stale"
          /\ buf[u] \in Seq(Nat) /\ buf[u] # <<>>
      BY <1>0, <1>7, <2>1 DEF Get
    <3>3. \/ Tail(buf[u]) = <<>> /\ Head(buf[u]) = buf[u][Len(buf[u])]
          \/ /\ Tail(buf[u]) # <<>>
             /\ Tail(buf[u])[Len(Tail(buf[u]))] = buf[u][Len(buf[u])]
      BY <3>2, LastOfTail
    <3> QED
      BY <3>1, <3>2, <3>3 DEF Kept
  <2>2. CASE queues[g] # u
    BY <1>0, <1>7, <2>2, KeptFrame DEF Get
  <2> QED
    BY <2>1, <2>2
<1>8. ASSUME NEW u \in Threads, GetTimeout(u)
      PROVE  Kept(g)'
  <2>1. CASE queues[g] = u
    BY <1>0, <1>8, <2>1 DEF GetTimeout, PutBlocked, Kept
  <2>2. CASE queues[g] # u
    <3>1. serves[u] # g
      BY <1>0, <1>8, <2>2 DEF GetTimeout
    <3>2. /\ UNCHANGED <<handled, sent, lost, inline, putting, event, buf>>
          /\ queues'[g] = queues[g]
          /\ \A t \in Threads : t # u => pc'[t] = pc[t]
      BY <1>0, <1>8, <3>1 DEF GetTimeout
    <3> QED
      <4>1. queues[g] # NoThread =>
               UNCHANGED <<buf[queues[g]], pc[queues[g]], event[queues[g]]>>
        BY <1>0, <2>2, <3>2
      <4> QED
        BY <1>0, <3>2, <4>1, KeptFrame
  <2> QED
    BY <2>1, <2>2
<1>9. ASSUME NEW u \in Threads, Drain(u)
      PROVE  Kept(g)'
  <2>1. CASE queues[g] = u
    <3>1. putting[Stream[g]] = u \/ buf[u][Len(buf[u])] = sent[g]
      BY <1>9, <2>1, NewestIsLast DEF Drain
    <3>2. /\ queues'[g] = u /\ u # NoThread /\ UNCHANGED <<sent, putting>>
          /\ event'[u] = buf[u][Len(buf[u])] /\ pc'[u] = "stale"
      BY <1>0, <1>9, <2>1 DEF Drain
    <3> QED
      BY <3>1, <3>2 DEF Kept
  <2>2. CASE queues[g] # u
    BY <1>0, <1>9, <2>2, KeptFrame DEF Drain
  <2> QED
    BY <2>1, <2>2
<1>10. ASSUME NEW u \in Threads, Handle(u)
       PROVE  Kept(g)'
  <2>1. /\ UNCHANGED <<queues, buf, event, putting, inline, sent, handled, lost>>
        /\ \A t \in Threads : pc'[t] = pc[t] \/ pc'[t] = "handle"
    BY <1>0, <1>10 DEF Handle
  <2> QED
    BY <1>0, <2>1 DEF Kept
<1>11. ASSUME NEW u \in Threads, Finish(u)
       PROVE  Kept(g)'
  <2>1. CASE queues[g] = u
    <3>1. /\ UNCHANGED <<queues, buf, event, putting, inline, sent, lost>>
          /\ handled'[g] = event[u] /\ u # NoThread
      BY <1>0, <1>11, <2>1 DEF Finish
    <3>2. handled[g] # sent[g]
      <4>1. handled[g] < event[u] /\ event[u] <= sent[g]
        BY <1>0, <1>11, <2>1, <3>1, EventNewer DEF Finish
      <4> QED
        BY <1>0, <4>1
    <3> QED
      BY <1>0, <2>1, <3>1, <3>2 DEF Kept
  <2>2. CASE queues[g] # u
    <3>1. serves[u] # g
      BY <1>0, <1>11, <2>2 DEF Finish
    <3> QED
      BY <1>0, <1>11, <2>2, <3>1, KeptFrame DEF Finish
  <2> QED
    BY <2>1, <2>2
<1>12. CASE UNCHANGED vars
  BY <1>0, <1>12, KeptFrame DEF vars
<1> QED
  BY <1>s, <1>1, <1>2, <1>3, <1>4, <1>5, <1>6, <1>7, <1>8, <1>9, <1>10, <1>11,
     <1>12 DEF Next, Call, Run, Quiet, Stop, Kill

-----------------------------------------------------------------------------
THEOREM Inductive == Spec => []IndInv
<1>1. Init => IndInv
  <2> SUFFICES ASSUME Init
               PROVE  IndInv
    OBVIOUS
  <2>1. TypeOK
    <3>1. <<>> \in Seq(Nat) /\ Len(<<>>) <= QueueDepth
      BY EmptySeq
    <3> QED
      BY <3>1 DEF Init, TypeOK
  <2>2. ThreadShape /\ OneThreadPerGroup
    BY DEF Init, ThreadShape, OneThreadPerGroup, Live, Empty
  <2>3. CallerShape
    BY DEF Init, CallerShape
  <2>4. QueueIsTheTail
    BY DEF Init, QueueIsTheTail, Live
  <2>5. NewestEventKept
    BY DEF Init, NewestEventKept, Kept
  <2> QED
    BY <2>1, <2>2, <2>3, <2>4, <2>5 DEF IndInv
<1>2. IndInv /\ [Next]_vars => IndInv'
  BY TypeStep, RegistryStep, CallerStep, TailStep, NewestStep DEF IndInv
<1> QED
  BY <1>1, <1>2, PTL DEF Spec

\* The types, and the bound of the queues, hold in every state.
THEOREM TypeCorrect == Spec => []TypeOK
BY Inductive, PTL DEF IndInv

\* At any time an object has at most one handler thread, and the registry of
\* Async names it.
THEOREM RegistryCorrect == Spec => []OneThreadPerGroup
BY Inductive, PTL DEF IndInv

\* The queue of an object is the gapless tail of its events.
THEOREM QueuesGapless == Spec => []QueueIsTheTail
BY Inductive, PTL DEF IndInv

\* Async never forgets the newest event of an object, except through an
\* exhausted thread pool or when the service stops.
THEOREM NewestKept == Spec => []NewestEventKept
BY Inductive, PTL DEF IndInv

-----------------------------------------------------------------------------
(* Async implements SerialMailbox.                                          *)

LEMMA TakingStutters ==
    ASSUME \A g \in Groups : Taking(g)' = Taking(g),
           UNCHANGED <<sent, handled, stopping>>
    PROVE  UNCHANGED Mailbox!vars
BY DEF Mailbox!vars

LEMMA MailboxStep ==
    ASSUME IndInv, [Next]_vars
    PROVE  [Mailbox!Next]_(Mailbox!vars)
<1> DEFINE MB == [Mailbox!Next]_(Mailbox!vars)
           Still == \A k \in Groups : Taking(k)' = Taking(k)
<1>0. TypeOK /\ ThreadShape /\ OneThreadPerGroup
  BY DEF IndInv
<1> USE DEF TypeOK, ThreadShape, OneThreadPerGroup, Live
<1>a. ASSUME NEW g \in Groups, Still, ~stopping,
             sent' = [sent EXCEPT ![g] = @ + 1], UNCHANGED <<handled, stopping>>
      PROVE  MB
  BY <1>a DEF Mailbox!Next, Mailbox!Arrive
<1>1. ASSUME NEW g \in Groups, NEW t \in Threads, CallNew(g, t)
      PROVE  MB
  <2>1. Still
    <3> SUFFICES ASSUME NEW k \in Groups
                 PROVE  Taking(k)' = Taking(k)
      OBVIOUS
    <3>1. CASE k = g
      BY <1>0, <1>1, <3>1 DEF CallNew, Taking
    <3>2. CASE k # g
      <4>1. queues'[k] = queues[k] /\ queues[k] # t
        BY <1>0, <1>1, <3>2 DEF CallNew
      <4>2. event' = event /\ \A u \in Threads : u # t => pc'[u] = pc[u]
        BY <1>0, <1>1 DEF CallNew
      <4>3. queues[k] # NoThread => queues[k] \in Threads
        BY <1>0
      <4> QED
        BY <4>1, <4>2, <4>3 DEF Taking
    <3> QED
      BY <3>1, <3>2
  <2> QED
    BY <1>1, <1>a, <2>1 DEF CallNew, Calling
<1>2. ASSUME NEW g \in Groups, CallQueued(g) \/ CallBlocked(g) \/ CallExhausted(g)
      PROVE  MB
  <2>1. Still
    BY <1>2 DEF CallQueued, CallBlocked, CallExhausted, threadVars, Taking
  <2> QED
    BY <1>2, <1>a, <2>1
       DEF CallQueued, CallBlocked, CallExhausted, threadVars, Calling
<1>3. ASSUME NEW w \in Watchers, Unblock(w) \/ InlineReturns(w)
      PROVE  MB
  <2>1. Still /\ UNCHANGED <<sent, handled, stopping>>
    BY <1>3 DEF Unblock, InlineReturns, threadVars, Taking
  <2> QED
    BY <2>1, TakingStutters
<1>4. ASSUME NEW t \in Threads, Get(t) \/ Drain(t)
      PROVE  MB
  <2>1. /\ UNCHANGED <<queues, sent, handled, stopping>>
        /\ \A u \in Threads : u # t => UNCHANGED <<pc[u], event[u]>>
        /\ pc[t] # "handle" /\ pc'[t] # "handle"
    BY <1>0, <1>4 DEF Get, Drain
  <2>2. Still
    BY <1>0, <2>1 DEF Taking
  <2> QED
    BY <2>1, <2>2, TakingStutters
<1>5. ASSUME NEW t \in Threads, GetTimeout(t)
      PROVE  MB
  <2>1. /\ UNCHANGED <<event, sent, handled, stopping>>
        /\ \A u \in Threads : u # t => pc'[u] = pc[u]
        /\ \A k \in Groups : queues[k] # t => queues'[k] = queues[k]
        /\ \A k \in Groups : queues[k] = t => queues'[k] = NoThread
        /\ pc[t] # "handle"
    BY <1>0, <1>5 DEF GetTimeout
  <2>2. Still
    BY <1>0, <2>1 DEF Taking
  <2> QED
    BY <2>1, <2>2, TakingStutters
<1>6. ASSUME NEW t \in Threads, Handle(t)
      PROVE  MB
  <2>1. PICK g \in Groups : g = serves[t] /\ queues[g] = t /\ t # NoThread
    BY <1>0, <1>6 DEF Handle
  <2>2. handled[g] < event[t] /\ event[t] <= sent[g]
    BY <1>6, <2>1, EventNewer DEF Handle
  <2>3. event[t] \in (handled[g] + 1)..sent[g]
    BY <1>0, <2>2
  <2>4. /\ UNCHANGED <<queues, event, sent, handled, stopping>>
        /\ \A u \in Threads : u # t => pc'[u] = pc[u]
        /\ pc[t] # "handle" /\ pc'[t] = "handle"
    BY <1>0, <1>6 DEF Handle
  <2>5. /\ Taking(g) = 0 /\ Taking(g)' = event[t]
        /\ \A k \in Groups : k # g => Taking(k)' = Taking(k)
    BY <1>0, <2>1, <2>4 DEF Taking
  <2>6. Mailbox!Begin(g)
    BY <2>1, <2>3, <2>4, <2>5 DEF Mailbox!Begin
  <2> QED
    BY <2>6 DEF Mailbox!Next
<1>7. ASSUME NEW t \in Threads, Finish(t)
      PROVE  MB
  <2>1. PICK g \in Groups : g = serves[t] /\ queues[g] = t /\ t # NoThread
    BY <1>0, <1>7 DEF Finish
  <2>2. event[t] # 0
    <3>1. handled[g] < event[t] /\ handled[g] \in Nat
      BY <1>0, <1>7, <2>1, EventNewer DEF Finish
    <3> QED
      BY <3>1
  <2>3. /\ UNCHANGED <<queues, event, sent, stopping>>
        /\ handled' = [handled EXCEPT ![g] = event[t]]
        /\ \A u \in Threads : u # t => pc'[u] = pc[u]
        /\ pc[t] = "handle" /\ pc'[t] = "get"
    BY <1>0, <1>7, <2>1 DEF Finish
  <2>4. /\ Taking(g) = event[t] /\ Taking(g)' = 0
        /\ \A k \in Groups : k # g => Taking(k)' = Taking(k)
    BY <1>0, <2>1, <2>3 DEF Taking
  <2>5. Mailbox!End(g)
    BY <2>1, <2>2, <2>3, <2>4 DEF Mailbox!End
  <2> QED
    BY <2>5 DEF Mailbox!Next
<1>8. CASE Stop
  <2>1. Still /\ stopping' = TRUE /\ UNCHANGED <<sent, handled>>
    BY <1>8 DEF Stop, threadVars, Taking
  <2>2. Mailbox!Close
    BY <2>1 DEF Mailbox!Close
  <2> QED
    BY <2>2 DEF Mailbox!Next
<1>9. ASSUME NEW t \in Threads, Kill(t)
      PROVE  MB
  <2>1. PICK g \in Groups : g = serves[t] /\ queues[g] = t /\ t # NoThread
    BY <1>0, <1>9 DEF Kill
  <2>2. /\ UNCHANGED <<event, sent, handled, stopping>> /\ stopping
        /\ \A u \in Threads : u # t => pc'[u] = pc[u]
        /\ queues' = [queues EXCEPT ![g] = NoThread]
    BY <1>0, <1>9, <2>1 DEF Kill
  <2>3. /\ Taking(g)' = 0
        /\ \A k \in Groups : k # g => Taking(k)' = Taking(k)
    BY <1>0, <2>1, <2>2 DEF Taking
  <2>4. Mailbox!Abort(g)
    BY <2>1, <2>2, <2>3 DEF Mailbox!Abort
  <2> QED
    BY <2>4 DEF Mailbox!Next
<1>10. CASE UNCHANGED vars
  BY <1>10, TakingStutters DEF vars, Taking
<1> QED
  BY <1>1, <1>2, <1>3, <1>4, <1>5, <1>6, <1>7, <1>8, <1>9, <1>10
     DEF Next, Call, Run, Quiet

\* Related events are handled serially and in their order of arrival.
THEOREM AsyncImplementsMailbox == Spec => MailboxSpec
<1>1. Init => Mailbox!Init
  BY DEF Init, Mailbox!Init, Taking
<1>2. IndInv /\ [Next]_vars => [Mailbox!Next]_(Mailbox!vars)
  BY MailboxStep
<1> QED
  BY <1>1, <1>2, Inductive, PTL DEF Spec, MailboxSpec, Mailbox!Spec
=============================================================================
