--------------------------- MODULE PetersonOrders --------------------------
(***************************************************************************)
(* peterson_mutex of task5, with the memory orders it asks for, under a    *)
(* model of release and acquire: a location keeps all the values stored to *)
(* it, in order, and a thread's view says from which on it may still read. *)
(* A store publishes a view with its value, the storing thread's whole     *)
(* view if it is a release; an acquire load takes that view over.  A       *)
(* relaxed access is bound only to its own location.                       *)
(*                                                                         *)
(* TreeMutex has the mutex of task1, whose accesses are all sequentially   *)
(* consistent.                                                             *)
(***************************************************************************)
EXTENDS Naturals, Sequences

CONSTANT Rounds     \* how often each thread takes the mutex

Thread == {0, 1}
Want(t) == IF t = 0 THEN "want0" ELSE "want1"
Victim == "victim"
Location == {Want(t) : t \in Thread} \cup {Victim}

VARIABLES memory,   \* location -> the values stored to it, each with a view
          view,     \* thread -> location -> the first value it may still read
          pc,       \* thread -> the access it is about to make
          rounds    \* thread -> how often it has taken the mutex

vars == <<memory, view, pc, rounds>>

Start == [x \in Location |-> 1]

\* The constructor's relaxed stores; the threads are created after them.
Init == /\ memory = [x \in Location |->
                        <<[value |-> IF x = Victim THEN 0 ELSE FALSE, view |-> Start]>>]
        /\ view = [t \in Thread |-> Start]
        /\ pc = [t \in Thread |-> "store want"]
        /\ rounds = [t \in Thread |-> 0]

-----------------------------------------------------------------------------
Later(v, w) == [x \in Location |-> IF v[x] > w[x] THEN v[x] ELSE w[x]]

\* A store comes last in its location, with the part of t's view it publishes.
Seen(t, x) == [view[t] EXCEPT ![x] = Len(memory[x]) + 1]
Store(t, x, value, published) ==
    /\ view' = [view EXCEPT ![t] = Seen(t, x)]
    /\ memory' = [memory EXCEPT ![x] = Append(@, [value |-> value, view |-> published])]

StoreRelaxed(t, x, value) == Store(t, x, value, [Start EXCEPT ![x] = Seen(t, x)[x]])
StoreRelease(t, x, value) == Store(t, x, value, Seen(t, x))

\* Some value that t may still read from x is n's, and t goes on from there.
LoadRelaxed(t, x, n) == /\ n \in view[t][x] .. Len(memory[x])
                        /\ view' = [view EXCEPT ![t][x] = n]
                        /\ UNCHANGED memory
LoadAcquire(t, x, n) == /\ n \in view[t][x] .. Len(memory[x])
                        /\ view' = [view EXCEPT ![t] = Later(memory[x][n].view,
                                                             [@ EXCEPT ![x] = n])]
                        /\ UNCHANGED memory

-----------------------------------------------------------------------------
Goto(t, from, to) == pc[t] = from /\ pc' = [pc EXCEPT ![t] = to]

StoreWant(t) == /\ rounds[t] < Rounds
                /\ Goto(t, "store want", "store victim")
                /\ StoreRelaxed(t, Want(t), TRUE)
                /\ UNCHANGED rounds

StoreVictim(t) == /\ Goto(t, "store victim", "load want")
                  /\ StoreRelease(t, Victim, t)
                  /\ UNCHANGED rounds

\* while (want[1 - t] && victim == t): the second load only if the first is true.
LoadWant(t) ==
    \E n \in 1 .. Len(memory[Want(1 - t)]) :
        /\ LoadAcquire(t, Want(1 - t), n)
        /\ Goto(t, "load want", IF memory[Want(1 - t)][n].value THEN "load victim" ELSE "inside")
        /\ UNCHANGED rounds

LoadVictim(t) ==
    \E n \in 1 .. Len(memory[Victim]) :
        /\ LoadRelaxed(t, Victim, n)
        /\ Goto(t, "load victim", IF memory[Victim][n].value = t THEN "load want" ELSE "inside")
        /\ UNCHANGED rounds

Unlock(t) == /\ Goto(t, "inside", "store want")
             /\ StoreRelease(t, Want(t), FALSE)
             /\ rounds' = [rounds EXCEPT ![t] = @ + 1]

Next == \E t \in Thread :
            StoreWant(t) \/ StoreVictim(t) \/ LoadWant(t) \/ LoadVictim(t) \/ Unlock(t)

Spec == Init /\ [][Next]_vars

-----------------------------------------------------------------------------
\* The orders are enough for the mutex to work as one: what the text of task5
\* claims of them.
MutualExclusion == ~ \A t \in Thread : pc[t] = "inside"
=============================================================================
