---------------------------- MODULE BlockingFlag ----------------------------
(***************************************************************************)
(* blocking_flag of task3: many threads wait(), one thread set()s.         *)
(*                                                                         *)
(* set() touches the atomic and the condition variable without the mutex,  *)
(* so its two steps may fall between a waiter's load of ready_ and the     *)
(* moment the waiter is asleep.                                            *)
(***************************************************************************)
EXTENDS Naturals

CONSTANT Waiter       \* the threads that call wait(); main calls set()

VARIABLES ready,      \* ready_
          holds,      \* waiter -> it holds mtx_
          pc,         \* where a waiter is
          mainPc      \* where main is

vars == <<ready, holds, pc, mainPc>>

Init == /\ ready = FALSE
        /\ holds = [t \in Waiter |-> FALSE]
        /\ pc = [t \in Waiter |-> "lock"]
        /\ mainPc = "store"

MutexFree == \A t \in Waiter : ~holds[t]

-----------------------------------------------------------------------------
\* std::unique_lock, on entry and on the way out of ready_cond_.wait
Lock(t) == /\ pc[t] = "lock"
           /\ MutexFree
           /\ holds' = [holds EXCEPT ![t] = TRUE]
           /\ pc' = [pc EXCEPT ![t] = "load"]
           /\ UNCHANGED <<ready, mainPc>>

\* while (!ready_.load())
Load(t) == /\ pc[t] = "load"
           /\ IF ready
              THEN /\ pc' = [pc EXCEPT ![t] = "done"]
                   /\ holds' = [holds EXCEPT ![t] = FALSE]
              ELSE /\ pc' = [pc EXCEPT ![t] = "sleep"]
                   /\ UNCHANGED holds
           /\ UNCHANGED <<ready, mainPc>>

\* ready_cond_.wait(lock): the mutex is given back and the thread sleeps.
Sleep(t) == /\ pc[t] = "sleep"
            /\ pc' = [pc EXCEPT ![t] = "asleep"]
            /\ holds' = [holds EXCEPT ![t] = FALSE]
            /\ UNCHANGED <<ready, mainPc>>

\* A condition variable may return without a notification.
WakeSpuriously(t) == /\ pc[t] = "asleep"
                     /\ pc' = [pc EXCEPT ![t] = "lock"]
                     /\ UNCHANGED <<ready, holds, mainPc>>

\* ready_.store(true)
Store == /\ mainPc = "store"
         /\ ready' = TRUE
         /\ mainPc' = "notify"
         /\ UNCHANGED <<holds, pc>>

\* Mutant: one sleeper is notified.
NotifyOne == /\ mainPc = "notify"
             /\ \/ \E t \in Waiter : /\ pc[t] = "asleep"
                                     /\ pc' = [pc EXCEPT ![t] = "lock"]
                \/ (\A t \in Waiter : pc[t] # "asleep") /\ UNCHANGED pc
             /\ mainPc' = "join"
             /\ UNCHANGED <<ready, holds>>

\* ready_cond_.notify_all()
NotifyAll == /\ mainPc = "notify"
             /\ pc' = [t \in Waiter |-> IF pc[t] = "asleep" THEN "lock" ELSE pc[t]]
             /\ mainPc' = "join"
             /\ UNCHANGED <<ready, holds>>

\* main joins the waiters.
Join == /\ mainPc = "join"
        /\ \A t \in Waiter : pc[t] = "done"
        /\ mainPc' = "done"
        /\ UNCHANGED <<ready, holds, pc>>

Wait(t) == Lock(t) \/ Load(t) \/ Sleep(t)
Main == Store \/ NotifyAll \/ Join

Next == Main \/ \E t \in Waiter : Wait(t) \/ WakeSpuriously(t)

Spec == Init /\ [][Next]_vars

\* Every thread that can run is run; the mutex is given to whoever asks for it
\* again and again.
FairSpec == /\ Spec
            /\ WF_vars(Main)
            /\ \A t \in Waiter : WF_vars(Wait(t)) /\ SF_vars(Lock(t))

-----------------------------------------------------------------------------
\* A waiter that has not tested the flag when it is stored, or that set() finds
\* asleep, gets out of wait().
SeenWaiterReturns ==
    \A t \in Waiter : (ready /\ pc[t] \in {"lock", "load"})
                      \/ (mainPc = "notify" /\ pc[t] = "asleep") ~> pc[t] = "done"

\* A thread can wait with blocking until the flag is set: every wait() returns
\* once set() was called.  What flag.txt says the flag is for.
EveryWaitReturns == \A t \in Waiter : ready ~> pc[t] = "done"
=============================================================================
