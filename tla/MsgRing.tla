------------------------------ MODULE MsgRing ------------------------------
(***************************************************************************)
(* Lunev/msg: N children are forked one by one; child i waits in a System  *)
(* V queue for a message of type N - i, prints its number and sends one of *)
(* type N - i + 1.  The parent sends type 1 and waits for N + 1, so the    *)
(* children print N - 1, ..., 0.                                           *)
(*                                                                         *)
(* The queue is found by a key every run of the program shares, so several *)
(* runs, with different N, may be under way at a time: Jobs.               *)
(***************************************************************************)
EXTENDS Naturals, Sequences, FiniteSets

CONSTANTS Jobs,     \* runs of the program
          N,        \* N[j]: how many children run j forks
          MaxKills  \* bound: how many children are killed

NAssumption == N \in [Jobs -> Nat \ {0}]
JobsAssumption == Jobs # {} /\ IsFiniteSet(Jobs) /\ MaxKills \in Nat

Widest == CHOOSE n \in {N[j] : j \in Jobs} : \A j \in Jobs : N[j] <= n
Types == 1 .. Widest + 1
Children == UNION {{j} \X (0 .. N[j] - 1) : j \in Jobs}

VARIABLES queue,    \* type -> how many messages of it are in the queue
          forked,   \* job -> how many children it has forked
          ppc,      \* job -> "fork", "wait" or "ended"
          cpc,      \* child -> "unborn", "receive", "print", "send", "ended", "killed"
          printed,  \* job -> the numbers its children have printed
          kills

vars == <<queue, forked, ppc, cpc, printed, kills>>

Init == /\ queue = [t \in Types |-> 0]
        /\ forked = [j \in Jobs |-> 0]
        /\ ppc = [j \in Jobs |-> "fork"]
        /\ cpc = [c \in Children |-> "unborn"]
        /\ printed = [j \in Jobs |-> <<>>]
        /\ kills = 0

Put(t) == queue' = [queue EXCEPT ![t] = @ + 1]
Take(t) == queue[t] > 0 /\ queue' = [queue EXCEPT ![t] = @ - 1]

TypeOf(c) == N[c[1]] - c[2]

-----------------------------------------------------------------------------
Fork(j) == /\ ppc[j] = "fork" /\ forked[j] < N[j]
           /\ forked' = [forked EXCEPT ![j] = @ + 1]
           /\ cpc' = [cpc EXCEPT ![<<j, forked[j]>>] = "receive"]
           /\ UNCHANGED <<queue, ppc, printed, kills>>

Start(j) == /\ ppc[j] = "fork" /\ forked[j] = N[j]
            /\ Put(1)
            /\ ppc' = [ppc EXCEPT ![j] = "wait"]
            /\ UNCHANGED <<forked, cpc, printed, kills>>

Finish(j) == /\ ppc[j] = "wait"
             /\ Take(N[j] + 1)
             /\ ppc' = [ppc EXCEPT ![j] = "ended"]
             /\ UNCHANGED <<forked, cpc, printed, kills>>

\* Mutant: any message will do (a type of 0).
ReceiveAny(c) == /\ cpc[c] = "receive"
                 /\ \E t \in Types : Take(t)
                 /\ cpc' = [cpc EXCEPT ![c] = "print"]
                 /\ UNCHANGED <<forked, ppc, printed, kills>>

Receive(c) == /\ cpc[c] = "receive"
              /\ Take(TypeOf(c))
              /\ cpc' = [cpc EXCEPT ![c] = "print"]
              /\ UNCHANGED <<forked, ppc, printed, kills>>

PrintNumber(c) == /\ cpc[c] = "print"
                  /\ printed' = [printed EXCEPT ![c[1]] = Append(@, c[2])]
                  /\ cpc' = [cpc EXCEPT ![c] = "send"]
                  /\ UNCHANGED <<queue, forked, ppc, kills>>

Send(c) == /\ cpc[c] = "send"
           /\ Put(TypeOf(c) + 1)
           /\ cpc' = [cpc EXCEPT ![c] = "ended"]
           /\ UNCHANGED <<forked, ppc, printed, kills>>

Kill(c) == /\ cpc[c] \in {"receive", "print", "send"} /\ kills < MaxKills
           /\ cpc' = [cpc EXCEPT ![c] = "killed"]
           /\ kills' = kills + 1
           /\ UNCHANGED <<queue, forked, ppc, printed>>

Parent(j) == Fork(j) \/ Start(j) \/ Finish(j)
Child(c) == Receive(c) \/ PrintNumber(c) \/ Send(c)

Step == \/ \E j \in Jobs : Parent(j)
        \/ \E c \in Children : Child(c)

Next == Step \/ \E c \in Children : Kill(c)

Spec == Init /\ [][Next]_vars

\* As long as some process can go on, one does; nobody is bound to be killed.
\* No process can go on for ever, so this is all the fairness there is to ask.
FairSpec == Spec /\ WF_vars(Step)

-----------------------------------------------------------------------------
\* The messages that are in the queue, those of a type numbered.
Messages == UNION {{t} \X (1 .. queue[t]) : t \in Types}

\* The types; there are never more messages than runs.
TypeOK == /\ queue \in [Types -> Nat]
          /\ Cardinality(Messages) <= Cardinality({j \in Jobs : ppc[j] # "fork"})
          /\ \A j \in Jobs : /\ forked[j] \in 0 .. N[j]
                             /\ ppc[j] \in {"fork", "wait", "ended"}
                             /\ printed[j] \in Seq(0 .. N[j] - 1)
          /\ cpc \in [Children -> {"unborn", "receive", "print", "send", "ended", "killed"}]

HasPrinted(c) == \E i \in DOMAIN printed[c[1]] : printed[c[1]][i] = c[2]
PrintedAt(t) == Cardinality({c \in Children : TypeOf(c) = t /\ HasPrinted(c)})

\* A child prints in its turn.  Runs that share the queue take each other's
\* messages, so a child may overtake one of its own run; but the children of a
\* place never print more often than those of the place before, and for a run
\* that is alone that is its order.
InTurn == \A t \in 1 .. Widest - 1 : PrintedAt(t) >= PrintedAt(t + 1)

\* Every run has ended and no message is left to the next.  All runs get there
\* as long as no child is killed, whatever runs they share the queue with.
AllEnded == /\ \A j \in Jobs : ppc[j] = "ended"
            /\ \A c \in Children : cpc[c] = "ended"
            /\ \A t \in Types : queue[t] = 0
=============================================================================
