------------------------------ MODULE Barrier -------------------------------
(***************************************************************************)
(* The cyclic barrier of task3 and the workers that use it.                *)
(*                                                                         *)
(* Everything enter() does before it sleeps or returns happens with the    *)
(* mutex held and touches no state outside it, so it is one step.  Sleep-  *)
(* ing on the condition variable and coming back from it are separate      *)
(* steps: between the notification and the moment the woken thread has the *)
(* mutex again any other thread may run, and may enter the next round.     *)
(*                                                                         *)
(* epoch is a machine word: it wraps after EpochModulus - 1.               *)
(*                                                                         *)
(* Behind the properties their proofs, for every set of threads, every     *)
(* number of calls and every width of the epoch word.                      *)
(***************************************************************************)
EXTENDS Naturals, FiniteSets, FiniteSetTheorems, TLAPS

CONSTANTS Thread,         \* the worker threads, one per seat of the barrier
          Calls,          \* how often each worker calls enter()
          EpochModulus    \* the number of values the word epoch can hold

ASSUME ThreadAssumption == IsFiniteSet(Thread) /\ Thread # {}
ASSUME CallsAssumption  == Calls \in Nat
ASSUME EpochAssumption  == EpochModulus \in Nat /\ EpochModulus >= 2

NumThreads == Cardinality(Thread)

VARIABLES epoch,        \* barrier::epoch
          curWaiting,   \* barrier::cur_waiting
          curEpoch,     \* the local cur_epoch of a thread inside enter()
          pc,           \* where a thread is
          returned      \* how many calls of enter() have returned to a thread

vars == <<epoch, curWaiting, curEpoch, pc, returned>>

\* "working"  outside enter()          "asleep"  in all_here.wait
\* "woken"    notified, not yet holding the mutex again
\* "leaving"  out of the critical section, not yet back in the worker
Locations == {"working", "asleep", "woken", "leaving"}

Init == /\ epoch = 0
        /\ curWaiting = 0
        /\ curEpoch = [t \in Thread |-> 0]
        /\ pc = [t \in Thread |-> "working"]
        /\ returned = [t \in Thread |-> 0]

NextEpoch == IF epoch + 1 = EpochModulus THEN 0 ELSE epoch + 1

\* notify_all: every sleeper becomes a contender for the mutex.
WakeAll == [t \in Thread |-> IF pc[t] = "asleep" THEN "woken" ELSE pc[t]]

-----------------------------------------------------------------------------
\* A thread takes the mutex, counts itself in and is not the last to come.
ArriveAndSleep(t) ==
    /\ pc[t] = "working"
    /\ returned[t] < Calls
    /\ curWaiting + 1 # NumThreads
    /\ curWaiting' = curWaiting + 1
    /\ curEpoch' = [curEpoch EXCEPT ![t] = epoch]
    /\ pc' = [pc EXCEPT ![t] = "asleep"]
    /\ UNCHANGED <<epoch, returned>>

\* Mutant: only one sleeper is notified.
ArriveLastNotifyOne(t) ==
    /\ pc[t] = "working"
    /\ returned[t] < Calls
    /\ curWaiting + 1 = NumThreads
    /\ epoch' = NextEpoch
    /\ curWaiting' = 0
    /\ curEpoch' = [curEpoch EXCEPT ![t] = epoch]
    /\ \E u \in Thread \ {t} :
          /\ pc[u] = "asleep" \/ \A v \in Thread : pc[v] # "asleep"
          /\ pc' = [pc EXCEPT ![t] = "leaving",
                              ![u] = IF @ = "asleep" THEN "woken" ELSE @]
    /\ UNCHANGED returned

\* The last thread of the round opens the next epoch and notifies everybody.
ArriveLast(t) ==
    /\ pc[t] = "working"
    /\ returned[t] < Calls
    /\ curWaiting + 1 = NumThreads
    /\ epoch' = NextEpoch
    /\ curWaiting' = 0
    /\ curEpoch' = [curEpoch EXCEPT ![t] = epoch]
    /\ pc' = [WakeAll EXCEPT ![t] = "leaving"]
    /\ UNCHANGED returned

\* A condition variable may return without a notification.
WakeSpuriously(t) ==
    /\ pc[t] = "asleep"
    /\ pc' = [pc EXCEPT ![t] = "woken"]
    /\ UNCHANGED <<epoch, curWaiting, curEpoch, returned>>

\* Mutant: the wait has no predicate, a wake-up is taken for the signal.
RecheckNoPredicate(t) ==
    /\ pc[t] = "woken"
    /\ pc' = [pc EXCEPT ![t] = "leaving"]
    /\ UNCHANGED <<epoch, curWaiting, curEpoch, returned>>

\* Back from the wait with the mutex held: test cur_epoch != epoch.
Recheck(t) ==
    /\ pc[t] = "woken"
    /\ pc' = [pc EXCEPT ![t] = IF curEpoch[t] # epoch THEN "leaving"
                                                      ELSE "asleep"]
    /\ UNCHANGED <<epoch, curWaiting, curEpoch, returned>>

\* enter() returns to the worker's loop.
Leave(t) ==
    /\ pc[t] = "leaving"
    /\ pc' = [pc EXCEPT ![t] = "working"]
    /\ returned' = [returned EXCEPT ![t] = @ + 1]
    /\ UNCHANGED <<epoch, curWaiting, curEpoch>>

\* Every worker has left its loop: the joins of test_barrier succeed.
AllJoined == /\ \A t \in Thread : pc[t] = "working" /\ returned[t] = Calls
             /\ UNCHANGED vars

\* What a worker does of its own accord, the spurious wake-up excluded.
Step(t) == ArriveAndSleep(t) \/ ArriveLast(t) \/ Recheck(t) \/ Leave(t)

Next == \/ \E t \in Thread : Step(t) \/ WakeSpuriously(t)
        \/ AllJoined

Spec == Init /\ [][Next]_vars

\* Every thread that can run is eventually run, and gets the mutex.
FairSpec == Spec /\ \A t \in Thread : WF_vars(Step(t))

-----------------------------------------------------------------------------
\* The variables' types: the counter never stands at the number of seats, since the
\* last thread sets it back before it gives the mutex up.
TypeOK == /\ epoch \in 0 .. (EpochModulus - 1)
          /\ curWaiting \in 0 .. (NumThreads - 1)
          /\ curEpoch \in [Thread -> 0 .. (EpochModulus - 1)]
          /\ pc \in [Thread -> Locations]
          /\ returned \in [Thread -> Nat]

\* The calls a thread has made: those that returned and the one it is in.
Arrived(t) == returned[t] + (IF pc[t] = "working" THEN 0 ELSE 1)

\* No thread gets past its k-th enter() before all have made their k-th call,
\* however often threads wake up and whatever epoch has wrapped to.
Rendezvous == \A t, u \in Thread : returned[t] <= Arrived(u)

\* A thread asleep is one whose round is still open: the notification of a
\* round never passes a thread by, so nobody sleeps through an epoch.
NoSleeperLeftBehind == \A t \in Thread : pc[t] = "asleep" => curEpoch[t] = epoch

\* Every worker gets through all its calls and main's joins return.
AllCallsReturn == <>(\A t \in Thread : returned[t] = Calls)

\* The barrier implements the abstract one.
Abstract == INSTANCE PhaseBarrier
                WITH arrived <- [t \in Thread |-> Arrived(t)]

ImplementsPhases == Abstract!PhaseSpec

-----------------------------------------------------------------------------
(* Rounds(t) is the number of rounds thread t has been released from: the  *)
(* calls that returned, and the one it is in if that call's round is       *)
(* closed.  The heart of the argument is that all threads have the same    *)
(* Rounds at all times (LockStep), although they learn of it at different  *)
(* times.  It is inductive only with the meaning of cur_waiting            *)
(* (CountIsExact): the thread that finds the counter full may conclude     *)
(* that everyone else is waiting in the round it is about to close.        *)

Waiters == {t \in Thread : pc[t] \in {"asleep", "woken"} /\ curEpoch[t] = epoch}

Released(t) == \/ pc[t] = "leaving"
               \/ pc[t] = "woken" /\ curEpoch[t] # epoch

Rounds(t) == returned[t] + (IF Released(t) THEN 1 ELSE 0)

CountIsExact == curWaiting = Cardinality(Waiters)

LockStep == \A t, u \in Thread : Rounds(t) = Rounds(u)

IInv == TypeOK /\ NoSleeperLeftBehind /\ CountIsExact /\ LockStep

-----------------------------------------------------------------------------
\* The number of seats is a positive natural number.
LEMMA SeatsType == NumThreads \in Nat /\ NumThreads > 0
<1>1. NumThreads \in Nat
  BY ThreadAssumption, FS_CardinalityType DEF NumThreads
<1>2. NumThreads # 0
  BY ThreadAssumption, FS_EmptySet DEF NumThreads
<1> QED
  BY <1>1, <1>2

\* Advancing the epoch stays within the word and changes it.
LEMMA EpochAdvances ==
  ASSUME TypeOK
  PROVE  NextEpoch \in 0 .. (EpochModulus - 1) /\ NextEpoch # epoch
BY EpochAssumption DEF TypeOK, NextEpoch

\* The waiters are a finite set of threads.
LEMMA WaitersFinite == IsFiniteSet(Waiters) /\ Waiters \subseteq Thread
<1>1. Waiters \subseteq Thread
  BY DEF Waiters
<1> QED
  BY <1>1, ThreadAssumption, FS_Subset

\* When the counter says that only one thread is missing and t is outside,
\* everyone but t waits in the open round.
LEMMA EveryoneElseWaits ==
  ASSUME IInv, NEW t \in Thread, pc[t] = "working", curWaiting + 1 = NumThreads
  PROVE  Waiters = Thread \ {t}
<1>1. Waiters \subseteq Thread \ {t}
  BY DEF Waiters
<1>2. IsFiniteSet(Thread \ {t}) /\ Cardinality(Thread \ {t}) = NumThreads - 1
  BY ThreadAssumption, FS_RemoveElement DEF NumThreads
<1>3. Cardinality(Waiters) = Cardinality(Thread \ {t})
  BY <1>2, SeatsType DEF IInv, CountIsExact, TypeOK
<1> QED
  BY <1>1, <1>2, <1>3, FS_Subset

\* The inductive invariant holds initially.
LEMMA InitInv == Init => IInv
<1> SUFFICES ASSUME Init PROVE IInv
  OBVIOUS
<1>1. TypeOK
  BY SeatsType, EpochAssumption DEF Init, TypeOK, Locations
<1>2. NoSleeperLeftBehind
  BY DEF Init, NoSleeperLeftBehind
<1>3. CountIsExact
  <2>1. Waiters = {}
    BY DEF Init, Waiters
  <2> QED
    BY <2>1, FS_EmptySet DEF Init, CountIsExact
<1>4. LockStep
  BY DEF Init, LockStep, Rounds, Released
<1> QED
  BY <1>1, <1>2, <1>3, <1>4 DEF IInv

\* An early arrival keeps the invariant: the waiters grow by one.
LEMMA ArriveAndSleepInv ==
  ASSUME IInv, NEW t \in Thread, ArriveAndSleep(t)
  PROVE  IInv'
<1> USE DEF IInv, ArriveAndSleep
<1>1. TypeOK'
  BY SeatsType DEF TypeOK, Locations
<1>2. NoSleeperLeftBehind'
  BY DEF TypeOK, NoSleeperLeftBehind
<1>3. CountIsExact'
  <2>1. Waiters' = Waiters \cup {t} /\ t \notin Waiters
    BY DEF TypeOK, Waiters
  <2>2. Cardinality(Waiters \cup {t}) = Cardinality(Waiters) + 1
    BY <2>1, WaitersFinite, FS_AddElement
  <2> QED
    BY <2>1, <2>2 DEF CountIsExact
<1>4. LockStep'
  BY DEF TypeOK, LockStep, Rounds, Released
<1> QED
  BY <1>1, <1>2, <1>3, <1>4

\* Closing a round keeps the invariant: every thread is released from one
\* more round at the same time, and nobody waits in the new one.
LEMMA ArriveLastInv ==
  ASSUME IInv, NEW t \in Thread, ArriveLast(t)
  PROVE  IInv'
<1>1. Waiters = Thread \ {t}
  BY EveryoneElseWaits DEF ArriveLast
<1>2. NextEpoch \in 0 .. (EpochModulus - 1) /\ NextEpoch # epoch
  BY EpochAdvances DEF IInv
<1>3. \A u \in Thread : /\ pc'[u] \in {"woken", "leaving"}
                        /\ pc'[u] = "leaving" <=> u = t
                        /\ curEpoch'[u] # epoch'
  BY <1>1, <1>2 DEF ArriveLast, IInv, TypeOK, Waiters, WakeAll
<1>4. TypeOK'
  BY <1>2, SeatsType DEF ArriveLast, IInv, TypeOK, Locations, WakeAll
<1>5. NoSleeperLeftBehind'
  BY <1>3 DEF NoSleeperLeftBehind
<1>6. CountIsExact'
  <2>1. Waiters' = {}
    BY <1>3 DEF Waiters
  <2> QED
    BY <2>1, FS_EmptySet DEF ArriveLast, CountIsExact
<1>7. LockStep'
  <2>1. \A u \in Thread : Rounds(u)' = Rounds(u) + 1
    <3> TAKE u \in Thread
    <3>1. ~Released(u)
      BY <1>1 DEF ArriveLast, Released, Waiters
    <3>2. Released(u)'
      BY <1>3 DEF Released
    <3> QED
      BY <3>1, <3>2 DEF Rounds, ArriveLast, IInv, TypeOK
  <2> QED
    BY <2>1 DEF IInv, LockStep
<1> QED
  BY <1>4, <1>5, <1>6, <1>7 DEF IInv

\* A spurious wake-up keeps the invariant.
LEMMA WakeSpuriouslyInv ==
  ASSUME IInv, NEW t \in Thread, WakeSpuriously(t)
  PROVE  IInv'
<1> USE DEF IInv, WakeSpuriously
<1>1. TypeOK'
  BY DEF TypeOK, Locations
<1>2. NoSleeperLeftBehind'
  BY DEF TypeOK, NoSleeperLeftBehind
<1>3. CountIsExact'
  <2>1. Waiters' = Waiters
    BY DEF TypeOK, Waiters
  <2> QED
    BY <2>1 DEF CountIsExact
<1>4. LockStep'
  BY DEF TypeOK, LockStep, Rounds, Released, NoSleeperLeftBehind
<1> QED
  BY <1>1, <1>2, <1>3, <1>4

\* Testing the predicate keeps the invariant.
LEMMA RecheckInv ==
  ASSUME IInv, NEW t \in Thread, Recheck(t)
  PROVE  IInv'
<1> USE DEF IInv, Recheck
<1>1. TypeOK'
  BY DEF TypeOK, Locations
<1>2. NoSleeperLeftBehind'
  BY DEF TypeOK, NoSleeperLeftBehind
<1>3. CountIsExact'
  <2>1. Waiters' = Waiters
    BY DEF TypeOK, Waiters
  <2> QED
    BY <2>1 DEF CountIsExact
<1>4. LockStep'
  BY DEF TypeOK, LockStep, Rounds, Released
<1> QED
  BY <1>1, <1>2, <1>3, <1>4

\* Returning to the worker keeps the invariant.
LEMMA LeaveInv ==
  ASSUME IInv, NEW t \in Thread, Leave(t)
  PROVE  IInv'
<1> USE DEF IInv, Leave
<1>1. TypeOK'
  BY DEF TypeOK, Locations
<1>2. NoSleeperLeftBehind'
  BY DEF TypeOK, NoSleeperLeftBehind
<1>3. CountIsExact'
  <2>1. Waiters' = Waiters
    BY DEF TypeOK, Waiters
  <2> QED
    BY <2>1 DEF CountIsExact
<1>4. LockStep'
  BY DEF TypeOK, LockStep, Rounds, Released
<1> QED
  BY <1>1, <1>2, <1>3, <1>4

\* A step that changes nothing keeps the invariant.
LEMMA StutterInv == IInv /\ UNCHANGED vars => IInv'
BY DEF IInv, vars, TypeOK, NoSleeperLeftBehind, CountIsExact, Waiters,
       LockStep, Rounds, Released

\* Every step keeps the invariant.
LEMMA NextInv == IInv /\ [Next]_vars => IInv'
<1> SUFFICES ASSUME IInv, [Next]_vars PROVE IInv'
  OBVIOUS
<1>1. ASSUME NEW t \in Thread, ArriveAndSleep(t) PROVE IInv'
  BY <1>1, ArriveAndSleepInv
<1>2. ASSUME NEW t \in Thread, ArriveLast(t) PROVE IInv'
  BY <1>2, ArriveLastInv
<1>3. ASSUME NEW t \in Thread, Recheck(t) PROVE IInv'
  BY <1>3, RecheckInv
<1>4. ASSUME NEW t \in Thread, Leave(t) PROVE IInv'
  BY <1>4, LeaveInv
<1>5. ASSUME NEW t \in Thread, WakeSpuriously(t) PROVE IInv'
  BY <1>5, WakeSpuriouslyInv
<1>6. CASE AllJoined
  BY <1>6, StutterInv DEF AllJoined
<1>7. CASE UNCHANGED vars
  BY <1>7, StutterInv
<1> QED
  BY <1>1, <1>2, <1>3, <1>4, <1>5, <1>6, <1>7 DEF Next, Step

\* Type correctness, the exactness of the counter and the lock step of the
\* rounds hold in every reachable state of enter() and its workers.
THEOREM Invariance == Spec => []IInv
<1> QED
  BY InitInv, NextInv, PTL DEF Spec

\* The state of the barrier is always of its type: in particular cur_waiting
\* is below the number of threads whenever the mutex is free.
THEOREM TypeCorrect == Spec => []TypeOK
<1>1. IInv => TypeOK
  BY DEF IInv
<1> QED
  BY <1>1, Invariance, PTL

\* A thread's released rounds lie between its returns and its arrivals.
LEMMA RoundsBetween ==
  ASSUME IInv, NEW t \in Thread
  PROVE  /\ Rounds(t) \in Nat
         /\ returned[t] <= Rounds(t)
         /\ Rounds(t) <= Arrived(t)
BY DEF IInv, TypeOK, Rounds, Released, Arrived

\* No thread returns from its k-th enter() before all have called it k times.
THEOREM RendezvousHolds == Spec => []Rendezvous
<1>1. ASSUME IInv PROVE Rendezvous
  <2> SUFFICES ASSUME NEW t \in Thread, NEW u \in Thread
               PROVE  returned[t] <= Arrived(u)
    BY DEF Rendezvous
  <2>1. Rounds(t) = Rounds(u)
    BY <1>1 DEF IInv, LockStep
  <2>2. returned[t] \in Nat /\ Arrived(u) \in Nat
    BY <1>1 DEF IInv, TypeOK, Arrived
  <2> QED
    BY <1>1, <2>1, <2>2, RoundsBetween
<1> QED
  BY <1>1, Invariance, PTL

\* Nobody stays asleep in a round that is closed.
THEOREM NoSleeperLeftBehindHolds == Spec => []NoSleeperLeftBehind
<1>1. IInv => NoSleeperLeftBehind
  BY DEF IInv
<1> QED
  BY <1>1, Invariance, PTL

\* Every step of the barrier is a step of the abstract barrier or none.
LEMMA StepRefines ==
  ASSUME IInv, [Next]_vars
  PROVE  [Abstract!PhaseNext]_(Abstract!phaseVars)
<1> DEFINE arr == [t \in Thread |-> Arrived(t)]
<1> USE DEF IInv
<1>1. ASSUME NEW t \in Thread, ArriveAndSleep(t) \/ ArriveLast(t)
      PROVE  Abstract!Call(t)
  <2>1. pc[t] = "working" /\ pc'[t] # "working" /\ returned' = returned
    BY <1>1 DEF ArriveAndSleep, ArriveLast, TypeOK, WakeAll
  <2>2. \A u \in Thread \ {t} : pc'[u] = "working" <=> pc[u] = "working"
    BY <1>1 DEF ArriveAndSleep, ArriveLast, TypeOK, WakeAll
  <2>3. arr' = [arr EXCEPT ![t] = @ + 1]
    <3>1. Arrived(t)' = Arrived(t) + 1
      BY <2>1 DEF Arrived, TypeOK
    <3>2. \A u \in Thread \ {t} : Arrived(u)' = Arrived(u)
      BY <2>1, <2>2 DEF Arrived
    <3> QED
      BY <3>1, <3>2
  <2>4. arr[t] = returned[t]
    BY <2>1 DEF Arrived, TypeOK
  <2> QED
    BY <2>1, <2>3, <2>4 DEF Abstract!Call
<1>2. ASSUME NEW t \in Thread, Recheck(t) \/ WakeSpuriously(t)
      PROVE  UNCHANGED Abstract!phaseVars
  <2>1. returned' = returned
    BY <1>2 DEF Recheck, WakeSpuriously
  <2>2. \A u \in Thread : pc'[u] = "working" <=> pc[u] = "working"
    BY <1>2 DEF Recheck, WakeSpuriously, TypeOK
  <2>3. arr' = arr
    BY <2>1, <2>2 DEF Arrived
  <2> QED
    BY <2>1, <2>3 DEF Abstract!phaseVars
<1>3. ASSUME NEW t \in Thread, Leave(t)
      PROVE  Abstract!Return(t)
  <2>1. arr' = arr
    BY <1>3 DEF Leave, Arrived, TypeOK
  <2>2. arr[t] = returned[t] + 1 /\ Rounds(t) = arr[t]
    BY <1>3 DEF Leave, Arrived, TypeOK, Rounds, Released
  <2>3. \A u \in Thread : arr[u] >= arr[t]
    <3> TAKE u \in Thread
    <3>1. Rounds(u) = arr[t]
      BY <2>2 DEF LockStep
    <3>2. arr[u] \in Nat
      BY DEF Arrived, TypeOK
    <3> QED
      BY <3>1, <3>2, RoundsBetween
  <2>4. returned' = [returned EXCEPT ![t] = @ + 1]
    BY <1>3 DEF Leave
  <2> QED
    BY <2>1, <2>2, <2>3, <2>4 DEF Abstract!Return
<1>4. CASE AllJoined \/ UNCHANGED vars
  BY <1>4 DEF AllJoined, vars, Abstract!phaseVars, Arrived
<1> QED
  BY <1>1, <1>2, <1>3, <1>4 DEF Next, Step, Abstract!PhaseNext

\* The barrier implements the abstract phase barrier.
THEOREM BarrierImplementsPhases == Spec => ImplementsPhases
<1>1. Init => Abstract!PhaseInit
  BY DEF Init, Abstract!PhaseInit, Arrived
<1>2. IInv /\ [Next]_vars => [Abstract!PhaseNext]_(Abstract!phaseVars)
  BY StepRefines
<1> QED
  BY <1>1, <1>2, Invariance, PTL DEF Spec, ImplementsPhases, Abstract!PhaseSpec
=============================================================================
