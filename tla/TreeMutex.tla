----------------------------- MODULE TreeMutex ------------------------------
(***************************************************************************)
(* tree_mutex of task1: a tournament of two-thread Peterson mutexes.       *)
(*                                                                         *)
(* Every load and every store of an atomic is a step of its own, so the    *)
(* threads interleave between any two of them; the stores and loads are    *)
(* sequentially consistent, as the code's are.  A thread's loop variables  *)
(* are its own and appear as its position on the path that TournamentTree  *)
(* computes.                                                               *)
(***************************************************************************)
EXTENDS TournamentTree

CONSTANT NumThreads     \* the argument of tree_mutex's constructor

ASSUME NumThreadsAssumption == NumThreads \in Nat /\ NumThreads > 0

Thread == 0 .. (NumThreads - 1)
Side   == {LEFT, RIGHT}
Node   == 0 .. (TreeSize(NumThreads) - 1)

Up   == [t \in Thread |-> LockPath(NumThreads, t)]
Down == [t \in Thread |-> UnlockPath(NumThreads, t)]

VARIABLES want,     \* peterson_mutex::want of every node
          victim,   \* peterson_mutex::victim of every node
          pc,       \* where a thread is
          pos       \* the iteration of the loop it is in

vars == <<want, victim, pc, pos>>

Locations == {"idle", "want", "victim", "testWant", "testVictim",
              "critical", "release"}

Init == /\ want = [i \in Node |-> [s \in Side |-> FALSE]]
        /\ victim = [i \in Node |-> 0]
        /\ pc = [t \in Thread |-> "idle"]
        /\ pos = [t \in Thread |-> 0]

Here(t) == Up[t][pos[t]]      \* the node and side t is locking

\* lock() returns, or its loop goes on to the parent node.
Advance(t) ==
    IF pos[t] = Len(Up[t])
    THEN /\ pc' = [pc EXCEPT ![t] = "critical"]
         /\ UNCHANGED pos
    ELSE /\ pc' = [pc EXCEPT ![t] = "want"]
         /\ pos' = [pos EXCEPT ![t] = @ + 1]

-----------------------------------------------------------------------------
\* A thread calls lock().
Lock(t) == /\ pc[t] = "idle"
           /\ IF Len(Up[t]) = 0
              THEN pc' = [pc EXCEPT ![t] = "critical"] /\ UNCHANGED pos
              ELSE /\ pc' = [pc EXCEPT ![t] = "want"]
                   /\ pos' = [pos EXCEPT ![t] = 1]
           /\ UNCHANGED <<want, victim>>

\* want[t].store(true)
StoreWant(t) == /\ pc[t] = "want"
                /\ want' = [want EXCEPT ![Here(t).node][Here(t).side] = TRUE]
                /\ pc' = [pc EXCEPT ![t] = "victim"]
                /\ UNCHANGED <<victim, pos>>

\* Mutant: the thread names the other side the victim.
StoreVictimOther(t) ==
    /\ pc[t] = "victim"
    /\ victim' = [victim EXCEPT ![Here(t).node] = 1 - Here(t).side]
    /\ pc' = [pc EXCEPT ![t] = "testWant"]
    /\ UNCHANGED <<want, pos>>

\* victim.store(t)
StoreVictim(t) == /\ pc[t] = "victim"
                  /\ victim' = [victim EXCEPT ![Here(t).node] = Here(t).side]
                  /\ pc' = [pc EXCEPT ![t] = "testWant"]
                  /\ UNCHANGED <<want, pos>>

\* want[1 - t].load()
TestWant(t) == /\ pc[t] = "testWant"
               /\ IF want[Here(t).node][1 - Here(t).side]
                  THEN pc' = [pc EXCEPT ![t] = "testVictim"] /\ UNCHANGED pos
                  ELSE Advance(t)
               /\ UNCHANGED <<want, victim>>

\* victim.load() == t
TestVictim(t) == /\ pc[t] = "testVictim"
                 /\ IF victim[Here(t).node] = Here(t).side
                    THEN pc' = [pc EXCEPT ![t] = "testWant"] /\ UNCHANGED pos
                    ELSE Advance(t)
                 /\ UNCHANGED <<want, victim>>

\* A thread in its critical section calls unlock().
Unlock(t) == /\ pc[t] = "critical"
             /\ IF Len(Down[t]) = 0
                THEN pc' = [pc EXCEPT ![t] = "idle"] /\ UNCHANGED pos
                ELSE /\ pc' = [pc EXCEPT ![t] = "release"]
                     /\ pos' = [pos EXCEPT ![t] = 1]
             /\ UNCHANGED <<want, victim>>

\* Mutant: the nodes are given back from the leaf up.
ReleaseLeafFirst(t) ==
    /\ pc[t] = "release"
    /\ want' = [want EXCEPT ![Up[t][pos[t]].node][Up[t][pos[t]].side] = FALSE]
    /\ IF pos[t] = Len(Up[t])
       THEN pc' = [pc EXCEPT ![t] = "idle"] /\ pos' = [pos EXCEPT ![t] = 0]
       ELSE pos' = [pos EXCEPT ![t] = @ + 1] /\ UNCHANGED pc
    /\ UNCHANGED victim

\* Mutant: only the root is given back.
ReleaseRootOnly(t) ==
    /\ pc[t] = "release"
    /\ want' = [want EXCEPT ![Down[t][pos[t]].node][Down[t][pos[t]].side] = FALSE]
    /\ pc' = [pc EXCEPT ![t] = "idle"]
    /\ pos' = [pos EXCEPT ![t] = 0]
    /\ UNCHANGED victim

\* want[which_child].store(false), from the root down.
Release(t) ==
    /\ pc[t] = "release"
    /\ want' = [want EXCEPT ![Down[t][pos[t]].node][Down[t][pos[t]].side] = FALSE]
    /\ IF pos[t] = Len(Down[t])
       THEN pc' = [pc EXCEPT ![t] = "idle"] /\ pos' = [pos EXCEPT ![t] = 0]
       ELSE pos' = [pos EXCEPT ![t] = @ + 1] /\ UNCHANGED pc
    /\ UNCHANGED victim

\* The steps of a thread that is inside lock(), the critical section or
\* unlock(); whether it ever calls lock() is its own affair.
Step(t) == \/ StoreWant(t) \/ StoreVictim(t) \/ TestWant(t) \/ TestVictim(t)
           \/ Unlock(t) \/ Release(t)

Next == \E t \in Thread : Lock(t) \/ Step(t)

Spec == Init /\ [][Next]_vars

\* A thread that can run is eventually run, and no critical section is endless.
FairSpec == Spec /\ \A t \in Thread : WF_vars(Step(t))

-----------------------------------------------------------------------------
\* The variables' types: a thread inside a node's lock() or unlock() is on its path.
TypeOK == /\ want \in [Node -> [Side -> BOOLEAN]]
          /\ victim \in [Node -> Side]
          /\ pc \in [Thread -> Locations]
          /\ pos \in [Thread -> Nat]
          /\ \A t \in Thread :
                /\ pc[t] \in {"want", "victim", "testWant", "testVictim", "release"}
                        => pos[t] \in 1 .. Len(Up[t])

\* At most one thread is between lock() and unlock().
MutualExclusion == \A t, u \in Thread :
                      pc[t] = "critical" /\ pc[u] = "critical" => t = u

Waiting(t) == pc[t] \in {"testWant", "testVictim"}

\* t gets the node it waits for in this step.
GetsNode(t) == Waiting(t) /\ ~(Waiting(t)' /\ pos'[t] = pos[t])

RivalIsVictim ==
    \A t, u \in Thread :
        t # u /\ GetsNode(t) /\ Waiting(u) /\ Here(u).node = Here(t).node
            => victim[Here(t).node] = Here(u).side

\* A thread that gets a node although a rival already waits there, past its
\* store to victim, was there first: the rival is the victim.  So nobody is
\* overtaken twice at one node.
NoOvertaking == [][RivalIsVictim]_vars

\* Whoever calls lock() gets the mutex.
StarvationFree == \A t \in Thread : pc[t] = "want" ~> pc[t] = "critical"
=============================================================================
