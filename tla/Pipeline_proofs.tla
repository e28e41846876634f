---------------------------- MODULE Pipeline_proofs ---------------------------
(***************************************************************************)
(* Proofs about Pipeline, for any timeout, interval and handlers.          *)
(***************************************************************************)
EXTENDS Pipeline, TLAPS

USE HandlerAssumption, TimeAssumption

LEMMA TypeStep ==
    ASSUME TypeOK, [Next]_vars
    PROVE  TypeOK'
<1>1. ASSUME NEW h \in Handlers, NEW k \in Kinds, Register(h, k)
      PROVE  TypeOK'
  BY <1>1 DEF Register, eventVars, TypeOK
<1>2. ASSUME NEW k \in Kinds, Dispatch(k)
      PROVE  TypeOK'
  BY <1>2 DEF Dispatch, TypeOK
<1>3. ASSUME NEW h \in Handlers, Call(h)
      PROVE  TypeOK'
  BY <1>3 DEF Call, TypeOK
<1>4. ASSUME NEW d \in 0..MaxRun, Returns(d) \/ Raises(d) \/ NotReady(d)
      PROVE  TypeOK'
  <2>1. now + d \in Nat
    BY DEF TypeOK
  <2> QED
    BY <1>4, <2>1 DEF Returns, Raises, NotReady, TypeOK
<1>5. CASE Sleep
  <2>1. PICK n \in 1..(2 ^ attempt - 1) : now' = now + Backoff(n)
    BY <1>5 DEF Sleep
  <2>2. n \in Nat /\ n * Interval \in Nat
    OBVIOUS
  <2>3. now' \in Nat
    BY <2>1, <2>2 DEF Backoff, SecondsLeft, TypeOK
  <2> QED
    BY <1>5, <2>3 DEF Sleep, TypeOK
<1>6. CASE GiveUp
  BY <1>6 DEF GiveUp, eventVars, TypeOK
<1>7. CASE Done
  BY <1>7 DEF Done, TypeOK
<1>8. CASE UNCHANGED vars
  BY <1>8 DEF vars, eventVars, TypeOK
<1> QED
  BY <1>1, <1>2, <1>3, <1>4, <1>5, <1>6, <1>7, <1>8 DEF Next, Handle

\* What a sleep adds to the clock, for any random number.
LEMMA BackoffBounds ==
    ASSUME TypeOK, ~Expired, NEW n \in Nat
    PROVE  /\ Backoff(n) \in Nat
           /\ Backoff(n) >= Interval
           /\ now + Backoff(n) < deadline + Interval
<1>1. n * Interval \in Nat
  OBVIOUS
<1>2. PICK w \in Nat : w = n * Interval
  BY <1>1
<1> QED
  BY <1>2 DEF Backoff, Expired, SecondsLeft, TypeOK

\* The attempt that failed last did so before now.
Timely == /\ BackoffKept /\ NoLateAttempt
          /\ pc = "failed" => failedAt = now

IndInv == TypeOK /\ Timely

LEMMA TimelyStep ==
    ASSUME IndInv, [Next]_vars
    PROVE  Timely'
<1>0. TypeOK /\ Timely
  BY DEF IndInv
<1> USE DEF Timely, BackoffKept, NoLateAttempt
<1>1. ASSUME NEW h \in Handlers, NEW k \in Kinds, Register(h, k)
      PROVE  Timely'
  BY <1>0, <1>1 DEF Register, eventVars
<1>2. ASSUME NEW k \in Kinds, Dispatch(k)
      PROVE  Timely'
  BY <1>2 DEF Dispatch
<1>3. ASSUME NEW h \in Handlers, Call(h)
      PROVE  Timely'
  BY <1>0, <1>3 DEF Call, TypeOK
<1>4. ASSUME NEW d \in 0..MaxRun, Returns(d) \/ Raises(d) \/ NotReady(d)
      PROVE  Timely'
  BY <1>4 DEF Returns, Raises, NotReady
<1>5. CASE Sleep
  <2>1. PICK n \in 1..(2 ^ attempt - 1) : now' = now + Backoff(n)
    BY <1>5 DEF Sleep
  <2>2. n \in Nat /\ ~Expired
    BY <1>5 DEF Sleep
  <2>3. /\ Backoff(n) \in Nat /\ Backoff(n) >= Interval
        /\ now + Backoff(n) < deadline + Interval
    BY <1>0, <2>2, BackoffBounds
  <2>4. now' >= failedAt + Interval /\ now' < deadline + Interval
    BY <1>0, <1>5, <2>1, <2>3 DEF Sleep, TypeOK
  <2> QED
    BY <1>5, <2>4 DEF Sleep
<1>6. CASE GiveUp \/ Done
  BY <1>6 DEF GiveUp, Done
<1>7. CASE UNCHANGED vars
  BY <1>0, <1>7 DEF vars, eventVars
<1> QED
  BY <1>1, <1>2, <1>3, <1>4, <1>5, <1>6, <1>7 DEF Next, Handle

\* The invariant holds in every reachable state.
THEOREM Inductive == Spec => []IndInv
<1>1. Init => IndInv
  BY DEF Init, NoEvent, IndInv, TypeOK, Timely, BackoffKept, NoLateAttempt
<1>2. IndInv /\ [Next]_vars => IndInv'
  BY TypeStep, TimelyStep DEF IndInv
<1> QED
  BY <1>1, <1>2, PTL DEF Spec

\* The types; in particular an attempt has a number from which Retry._sleep can
\* draw its random interval.
THEOREM TypeCorrect == Spec => []TypeOK
<1>1. IndInv => TypeOK
  BY DEF IndInv
<1> QED
  BY <1>1, Inductive, PTL

\* Retry._sleep keeps the minimal time between a failure and the next attempt.
THEOREM BackoffCorrect == Spec => []BackoffKept
<1>1. IndInv => BackoffKept
  BY DEF IndInv, Timely
<1> QED
  BY <1>1, Inductive, PTL

\* No attempt starts later than the minimal interval past the deadline.
THEOREM AttemptsTimely == Spec => []NoLateAttempt
<1>1. IndInv => NoLateAttempt
  BY DEF IndInv, Timely
<1> QED
  BY <1>1, Inductive, PTL
=============================================================================
