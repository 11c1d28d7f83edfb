------------------------------- MODULE Newton -------------------------------
(***************************************************************************)
(* Lunev/newton: the intervals 1 .. Ninter are dealt out among Nprocs      *)
(* children, child p taking p, p + Nprocs, ...  Each sends its sum in one  *)
(* message; the parent receives Nprocs messages of any type and adds up.   *)
(* As in MsgRing, all runs of the program share one queue, and here a run  *)
(* may take the messages of another: the sum it ends with is then not the  *)
(* one it was asked for.                                                   *)
(*                                                                         *)
(* A sum is the sequence of the intervals it is made of; what an interval  *)
(* adds (compute_interval) is left out.  A message is named by the child   *)
(* that has sent it, with whose localsum it was filled.                    *)
(***************************************************************************)
EXTENDS Integers, Sequences, FiniteSets

CONSTANTS Jobs, Ninter, Nprocs,
          MaxKills  \* bound: how many children are killed

JobAssumption == /\ IsFiniteSet(Jobs)
                 /\ Ninter \in [Jobs -> Nat]
                 /\ Nprocs \in [Jobs -> Nat \ {0}]
BoundAssumption == MaxKills \in Nat

Computers == UNION {{j} \X (1 .. Nprocs[j]) : j \in Jobs}
Intervals == UNION {{j} \X (1 .. Ninter[j]) : j \in Jobs}

VARIABLES queue,      \* the senders of the messages, first in first out
          forked,     \* job -> how many children are forked
          ppc,        \* job -> "fork", "collect", "reap" or "ended"
          cpc,        \* computer -> "unborn", "compute", "ended", "killed"
          i,          \* computer -> the next interval it looks at
          localsum,   \* computer -> the intervals it has added
          received,   \* job -> how many messages it has received
          sum,        \* job -> the intervals it has added up
          senders,    \* history: job -> the computers whose messages it has received
          kills

procs == <<forked, cpc>>
vars == <<queue, procs, ppc, i, localsum, received, sum, senders, kills>>

Init == /\ queue = <<>>
        /\ forked = [j \in Jobs |-> 0]
        /\ ppc = [j \in Jobs |-> "fork"]
        /\ cpc = [c \in Computers |-> "unborn"]
        /\ i = [c \in Computers |-> c[2]]
        /\ localsum = [c \in Computers |-> <<>>]
        /\ received = [j \in Jobs |-> 0]
        /\ sum = [j \in Jobs |-> <<>>]
        /\ senders = [j \in Jobs |-> {}]
        /\ kills = 0

-----------------------------------------------------------------------------
Fork(j) == /\ ppc[j] = "fork" /\ forked[j] < Nprocs[j]
           /\ forked' = [forked EXCEPT ![j] = @ + 1]
           /\ cpc' = [cpc EXCEPT ![<<j, forked[j] + 1>>] = "compute"]
           /\ UNCHANGED <<queue, ppc, i, localsum, received, sum, senders, kills>>

Forked(j) == /\ ppc[j] = "fork" /\ forked[j] = Nprocs[j]
             /\ ppc' = [ppc EXCEPT ![j] = "collect"]
             /\ UNCHANGED <<queue, procs, i, localsum, received, sum, senders, kills>>

\* Mutant: the step does not depend on the number of children.
ComputeNext(c) == /\ cpc[c] = "compute" /\ i[c] <= Ninter[c[1]]
                  /\ localsum' = [localsum EXCEPT ![c] = Append(@, <<c[1], i[c]>>)]
                  /\ i' = [i EXCEPT ![c] = @ + 1]
                  /\ UNCHANGED <<queue, procs, ppc, received, sum, senders, kills>>

Compute(c) == /\ cpc[c] = "compute" /\ i[c] <= Ninter[c[1]]
              /\ localsum' = [localsum EXCEPT ![c] = Append(@, <<c[1], i[c]>>)]
              /\ i' = [i EXCEPT ![c] = @ + Nprocs[c[1]]]
              /\ UNCHANGED <<queue, procs, ppc, received, sum, senders, kills>>

SendSum(c) == /\ cpc[c] = "compute" /\ i[c] > Ninter[c[1]]
              /\ queue' = Append(queue, c)
              /\ cpc' = [cpc EXCEPT ![c] = "ended"]
              /\ UNCHANGED <<forked, ppc, i, localsum, received, sum, senders, kills>>

\* Type 0: the first message, whoever has sent it.
Collect(j) == /\ ppc[j] = "collect" /\ queue # <<>>
              /\ queue' = Tail(queue)
              /\ sum' = [sum EXCEPT ![j] = @ \o localsum[Head(queue)]]
              /\ senders' = [senders EXCEPT ![j] = @ \cup {Head(queue)}]
              /\ received' = [received EXCEPT ![j] = @ + 1]
              /\ ppc' = IF received'[j] < Nprocs[j] THEN ppc
                        ELSE [ppc EXCEPT ![j] = "reap"]
              /\ UNCHANGED <<procs, i, localsum, kills>>

\* wait(NULL): any one child.
Reap(j) == /\ ppc[j] = "reap"
           /\ \E p \in 1 .. Nprocs[j] : cpc[<<j, p>>] \in {"ended", "killed"}
           /\ ppc' = [ppc EXCEPT ![j] = "ended"]
           /\ UNCHANGED <<queue, procs, i, localsum, received, sum, senders, kills>>

Kill(c) == /\ cpc[c] = "compute" /\ kills < MaxKills
           /\ cpc' = [cpc EXCEPT ![c] = "killed"]
           /\ kills' = kills + 1
           /\ UNCHANGED <<queue, forked, ppc, i, localsum, received, sum, senders>>

Collector(j) == Fork(j) \/ Forked(j) \/ Collect(j) \/ Reap(j)
Computer(c) == Compute(c) \/ SendSum(c)

Step == \/ \E j \in Jobs : Collector(j)
        \/ \E c \in Computers : Computer(c)

Next == Step \/ \E c \in Computers : Kill(c)

Spec == Init /\ [][Next]_vars

\* As long as some process can go on, one does; nobody is bound to be killed.
\* No process can go on for ever, so this is all the fairness there is to ask.
FairSpec == Spec /\ WF_vars(Step)

-----------------------------------------------------------------------------
\* Every run gets there if no child is killed: none takes more messages than its
\* own children have sent.
AllEnded == \A j \in Jobs : ppc[j] = "ended"

\* The types; a collector has as many messages as it has asked for.
TypeOK == /\ queue \in Seq(Computers)
          /\ \A j \in Jobs : /\ forked[j] \in 0 .. Nprocs[j]
                             /\ received[j] \in 0 .. Nprocs[j]
                             /\ sum[j] \in Seq(Intervals)
                             /\ senders[j] \subseteq Computers
                             /\ ppc[j] \in {"fork", "collect", "reap", "ended"}
          /\ \A c \in Computers : /\ localsum[c] \in Seq(Intervals)
                                  /\ i[c] \in 1 .. Ninter[c[1]] + Nprocs[c[1]]
                                  /\ cpc[c] \in {"unborn", "compute", "ended", "killed"}

Added(j) == {sum[j][n] : n \in 1 .. Len(sum[j])}

\* A run that has ended with messages of its own children only, as one that is alone
\* always does, has added its own intervals and all of them: the integral of newton.c:51.
OwnIntegral(j) ==
    ppc[j] = "ended" /\ (\A c \in senders[j] : c[1] = j) =>
        Added(j) = {j} \X (1 .. Ninter[j])

\* What a run adds up is right if it has met no other run's messages.  If it has, its
\* sum is wrong, but no interval is lost or counted double among the runs: none is
\* added twice, by whatever run, and when all runs have ended all have been added.
EachIntervalOnce ==
    /\ \A j \in Jobs : OwnIntegral(j)
    /\ \A j, k \in Jobs : \A n \in 1 .. Len(sum[j]), m \in 1 .. Len(sum[k]) :
           sum[j][n] = sum[k][m] => j = k /\ n = m
    /\ AllEnded => UNION {Added(j) : j \in Jobs} = Intervals
=============================================================================
