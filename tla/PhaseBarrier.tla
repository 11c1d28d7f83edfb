---------------------------- MODULE PhaseBarrier ----------------------------
(***************************************************************************)
(* What a cyclic barrier promises, with no mention of a mutex, an epoch or *)
(* a condition variable: a thread returns from its k-th call only after    *)
(* every thread has made its k-th call.                                    *)
(***************************************************************************)
EXTENDS Naturals

CONSTANT Thread

VARIABLES arrived,   \* calls of enter() a thread has made
          returned   \* calls of enter() that have returned to it

phaseVars == <<arrived, returned>>

PhaseInit == /\ arrived  = [t \in Thread |-> 0]
             /\ returned = [t \in Thread |-> 0]

Call(t) == /\ arrived[t] = returned[t]
           /\ arrived' = [arrived EXCEPT ![t] = @ + 1]
           /\ UNCHANGED returned

Return(t) == /\ arrived[t] = returned[t] + 1
             /\ \A u \in Thread : arrived[u] >= arrived[t]
             /\ returned' = [returned EXCEPT ![t] = @ + 1]
             /\ UNCHANGED arrived

PhaseNext == \E t \in Thread : Call(t) \/ Return(t)

PhaseSpec == PhaseInit /\ [][PhaseNext]_phaseVars
=============================================================================
