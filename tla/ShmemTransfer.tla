---------------------------- MODULE ShmemTransfer ---------------------------
(***************************************************************************)
(* Lunev/shmem: a sender copies a file block by block to a receiver through *)
(* a shared memory segment, and each notices the death of the other.       *)
(*                                                                         *)
(* The semaphores are those of System V.  semop() applies a list of        *)
(* operations as a whole or waits until it can, unless the one that holds  *)
(* it up says IPC_NOWAIT; what was done with SEM_UNDO is undone when the   *)
(* process ends; SETVAL forgets what every process has to undo.            *)
(*                                                                         *)
(* The semaphores outlive the processes.  At its end a side counts itself  *)
(* a second time in Alive, without SEM_UNDO: if it is killed before its     *)
(* SETVALs that count stays, and the next run meets it (see ghosts).        *)
(***************************************************************************)
EXTENDS Integers, Sequences, FiniteSets

CONSTANTS Receiver, Sender,
          Blocks,        \* how many blocks the file has
          MaxCrashes,    \* bound: how many processes are killed
          MaxLeft,       \* bound: what earlier runs have left in a semaphore
          FileMayMiss    \* whether fopen may fail

BoundAssumption == /\ Blocks \in Nat /\ MaxCrashes \in Nat /\ MaxLeft \in Nat
                   /\ FileMayMiss \in BOOLEAN
SideAssumption == Receiver \cap Sender = {}

Process == Receiver \cup Sender

\* The semaphores; the sixth is never used but to be set to 0.
Empty == 0
Full == 1
Snd == 2
Rcv == 3
Alive == 4
Semaphores == 0 .. 4

VARIABLES sem,       \* their values
          undo,      \* process -> semaphore -> what its end adds (semadj)
          shmem,     \* the segment: a block of a sender, or -1
          pc,        \* process -> the call it is about to make, or its end
          block,     \* sender -> the block it has read from the file
          toReset,   \* process -> the next semaphore of its final SETVALs
          failed,    \* process -> these end with EXIT_FAILURE
          printed,   \* receiver -> the blocks it has written out
          ghosts     \* history: what killed runs have left in Alive

vars == <<sem, undo, shmem, pc, block, toReset, failed, printed, ghosts>>

\* The end of file is a block of size 0, which comes after the last one.
Eof == Blocks + 1

\* The semaphores and the segment are as killed runs have left them; who holds Snd and
\* Rcv gives them back.  A new segment is full of zeros, which is Eof.
Init == /\ sem \in [Semaphores -> 0 .. MaxLeft]
        /\ sem[Snd] = 0 /\ sem[Rcv] = 0
        /\ ghosts = sem[Alive]
        /\ shmem \in {-1} \cup (1 .. Eof)
        /\ undo = [p \in Process |-> [k \in Semaphores |-> 0]]
        /\ pc = [p \in Process |-> "sync"]
        /\ block = [s \in Sender |-> 0]
        /\ toReset = [p \in Process |-> 0]
        /\ failed = [p \in Process |-> FALSE]
        /\ printed = [r \in Receiver |-> <<>>]

-----------------------------------------------------------------------------
\* The kernel: an operation, and a list of them tried in order.
Op(k, d) == [sem |-> k, delta |-> d, undo |-> FALSE, nowait |-> FALSE]
Undone(o) == [o EXCEPT !.undo = TRUE]
NoWait(o) == [o EXCEPT !.nowait = TRUE]

Try(p, ops) ==
    LET apply(r, o) ==
            IF r.outcome # "done" THEN r
            ELSE IF \/ o.delta = 0 /\ r.sem[o.sem] # 0
                    \/ r.sem[o.sem] + o.delta < 0
            THEN [r EXCEPT !.outcome = IF o.nowait THEN "fails" ELSE "waits"]
            ELSE [r EXCEPT !.sem[o.sem] = @ + o.delta,
                           !.undo[o.sem] = IF o.undo THEN @ - o.delta ELSE @]
        first[n \in 0 .. Len(ops)] ==
            IF n = 0 THEN [outcome |-> "done", sem |-> sem, undo |-> undo[p]]
            ELSE apply(first[n - 1], ops[n])
    IN first[Len(ops)]

\* What the end of p does to the semaphores.
ExitSem(p) ==
    /\ sem' = [k \in Semaphores |-> IF sem[k] + undo[p][k] < 0 THEN 0 ELSE sem[k] + undo[p][k]]
    /\ undo' = [undo EXCEPT ![p] = [k \in Semaphores |-> 0]]

SetVal(k, v) == /\ sem' = [sem EXCEPT ![k] = v]
                /\ undo' = [p \in Process |-> [undo[p] EXCEPT ![k] = 0]]

Goto(p, l) == pc' = [pc EXCEPT ![p] = l]

\* semop() of p at pc a goes on to b; if it fails, ERROR_SEM.
Semop(p, a, ops, b) ==
    /\ pc[p] = a
    /\ LET r == Try(p, ops)
       IN \/ /\ r.outcome = "done"
             /\ sem' = r.sem
             /\ undo' = [undo EXCEPT ![p] = r.undo]
             /\ Goto(p, b)
             /\ UNCHANGED failed
          \/ /\ r.outcome = "fails"
             /\ Goto(p, "reset")
             /\ failed' = [failed EXCEPT ![p] = TRUE]
             /\ UNCHANGED <<sem, undo>>
    /\ UNCHANGED <<shmem, block, toReset, printed, ghosts>>

\* Both are alive; d to semaphore k, and both still are.
BothAlive == <<NoWait(Op(Alive, -2)), Op(Alive, 2)>>
WhileAlive(k, d) == BothAlive \o <<Op(k, d)>> \o BothAlive

-----------------------------------------------------------------------------
\* Only the first receiver, or sender, passes; the others end at once.
Choose(p, k) ==
    /\ pc[p] = "sync"
    /\ LET r == Try(p, <<NoWait(Op(k, 0)), Undone(Op(k, 1))>>)
       IN /\ IF r.outcome = "done"
             THEN /\ sem' = r.sem
                  /\ undo' = [undo EXCEPT ![p] = r.undo]
             ELSE UNCHANGED <<sem, undo>>
          /\ Goto(p, IF r.outcome # "done" THEN "refused"
                     ELSE IF p \in Sender THEN "set_empty" ELSE "birth")
    /\ UNCHANGED <<shmem, block, toReset, failed, printed, ghosts>>

\* The steps both sides have: birth, the adjustment for its own death, GO.
Birth(p) == Semop(p, "birth", <<Undone(Op(Alive, 1))>>, "prevent")
Prevent(p, k) == Semop(p, "prevent", <<Op(k, 1), Undone(Op(k, -1))>>, "go")
Go(p) == Semop(p, "go", <<Op(Alive, -2), Op(Alive, 2)>>, "wait")

-----------------------------------------------------------------------------
\* Mutant: the receiver's P and V do not test that the sender is alive.
WaitFullBlindly(r) == Semop(r, "wait", <<Op(Full, -1)>>, "access")

WaitFull(r) == Semop(r, "wait", WhileAlive(Full, -1), "access")

\* The block is taken out and written, or the loop left at end of file.  A block that was
\* taken already has size -1, and memmove() of that many bytes ends the process.
Take(r) == /\ pc[r] = "access"
           /\ \/ /\ shmem = Eof
                 /\ Goto(r, "end")
                 /\ UNCHANGED <<sem, undo, shmem, printed>>
              \/ /\ shmem \in 1 .. Blocks
                 /\ printed' = [printed EXCEPT ![r] = Append(@, shmem)]
                 /\ shmem' = -1
                 /\ Goto(r, "signal")
                 /\ UNCHANGED <<sem, undo>>
              \/ /\ shmem = -1
                 /\ ExitSem(r)
                 /\ Goto(r, "crashed")
                 /\ UNCHANGED <<shmem, printed>>
           /\ UNCHANGED <<block, toReset, failed, ghosts>>

SignalEmpty(r) == Semop(r, "signal", WhileAlive(Empty, 1), "wait")

ReceiverEnd(r) == Semop(r, "end", BothAlive \o <<Op(Alive, 1)>>, "reset")

-----------------------------------------------------------------------------
SetEmpty(s) == /\ pc[s] = "set_empty"
               /\ SetVal(Empty, 1)
               /\ Goto(s, "set_full")
               /\ UNCHANGED <<shmem, block, toReset, failed, printed, ghosts>>

\* Mutant: what a killed run left in the second semaphore stays there.
SetFullNot(s) == /\ pc[s] = "set_full"
                 /\ Goto(s, "open")
                 /\ UNCHANGED <<sem, undo, shmem, block, toReset, failed, printed, ghosts>>

SetFull(s) == /\ pc[s] = "set_full"
              /\ SetVal(Full, 0)
              /\ Goto(s, "open")
              /\ UNCHANGED <<shmem, block, toReset, failed, printed, ghosts>>

Open(s) == /\ pc[s] = "open"
           /\ \/ Goto(s, "birth") /\ UNCHANGED failed
              \/ /\ FileMayMiss
                 /\ Goto(s, "reset")
                 /\ failed' = [failed EXCEPT ![s] = TRUE]
           /\ UNCHANGED <<sem, undo, shmem, block, toReset, printed, ghosts>>

WaitEmpty(s) == Semop(s, "wait", WhileAlive(Empty, -1), "access")

\* The next block of the file, read before the wait, goes into the segment.
Fill(s) == /\ pc[s] = "access"
           /\ block' = [block EXCEPT ![s] = @ + 1]
           /\ shmem' = block[s] + 1
           /\ Goto(s, "signal")
           /\ UNCHANGED <<sem, undo, toReset, failed, printed, ghosts>>

SignalFull(s) == Semop(s, "signal", WhileAlive(Full, 1),
                       IF block[s] = Eof THEN "end" ELSE "wait")

SenderEnd(s) == Semop(s, "end", BothAlive \o <<Op(Alive, 1)>>, "wait_both")
WaitBoth(s) == Semop(s, "wait_both", <<Op(Alive, -4)>>, "reset")

-----------------------------------------------------------------------------
\* The SETVALs of ERROR_SEM and of the end of main, then exit.
Reset(p) == /\ pc[p] = "reset" /\ toReset[p] \in Semaphores
            /\ SetVal(toReset[p], 0)
            /\ toReset' = [toReset EXCEPT ![p] = @ + 1]
            /\ UNCHANGED <<shmem, pc, block, failed, printed, ghosts>>

Exit(p) == /\ pc[p] = "reset" /\ toReset[p] \notin Semaphores
           /\ ExitSem(p)
           /\ Goto(p, IF failed[p] THEN "failed" ELSE "done")
           /\ UNCHANGED <<shmem, block, toReset, failed, printed, ghosts>>

Over == {"refused", "failed", "done", "killed", "crashed"}

Kill(p) == /\ pc[p] \notin Over \cup {"sync"}
           /\ Cardinality({q \in Process : pc[q] = "killed"}) < MaxCrashes
           /\ ExitSem(p)
           /\ Goto(p, "killed")
           /\ UNCHANGED <<shmem, block, toReset, failed, printed, ghosts>>

Receive(r) == \/ Choose(r, Rcv) \/ Birth(r) \/ Prevent(r, Empty) \/ Go(r)
              \/ WaitFull(r) \/ Take(r) \/ SignalEmpty(r) \/ ReceiverEnd(r)
              \/ Reset(r) \/ Exit(r)

Send(s) == \/ Choose(s, Snd) \/ SetEmpty(s) \/ SetFull(s) \/ Open(s)
           \/ Birth(s) \/ Prevent(s, Full) \/ Go(s)
           \/ WaitEmpty(s) \/ Fill(s) \/ SignalFull(s) \/ SenderEnd(s) \/ WaitBoth(s)
           \/ Reset(s) \/ Exit(s)

Step == \/ \E r \in Receiver : Receive(r)
        \/ \E s \in Sender : Send(s)

Next == Step \/ \E p \in Process : Kill(p)

Spec == Init /\ [][Next]_vars

\* As long as some process can go on, one does; nobody is bound to be killed.
\* No process can go on for ever, so this is all the fairness there is to ask.
FairSpec == Spec /\ WF_vars(Step)

-----------------------------------------------------------------------------
Locations == Over \cup {"sync", "set_empty", "set_full", "open", "birth", "prevent", "go",
                        "wait", "access", "signal", "end", "wait_both", "reset"}

\* The types.  If no count was left behind and nobody is killed, the buffer's semaphores are
\* binary once the sender has set them, and a process has one unit to undo at most.
TypeOK == /\ sem \in [Semaphores -> Nat]
          /\ undo \in [Process -> [Semaphores -> Int]]
          /\ shmem \in {-1} \cup (1 .. Eof)
          /\ pc \in [Process -> Locations]
          /\ block \in [Sender -> 0 .. Eof]
          /\ toReset \in [Process -> 0 .. 5]
          /\ failed \in [Process -> BOOLEAN]
          /\ printed \in [Receiver -> Seq(1 .. Blocks)]
          /\ ghosts \in Nat
          /\ ghosts = 0 =>
                 /\ \A p \in Process : \A k \in Semaphores : undo[p][k] \in -1 .. 1
                 /\ \/ sem[Empty] <= 1 /\ sem[Full] <= 1
                    \/ \E p \in Process : pc[p] = "killed"
                    \/ \E s \in Sender : pc[s] \in {"sync", "refused", "set_empty", "set_full"}

\* A receiver prints the file from its start, no block lost, repeated or out of order, and
\* all of it if it ends without an error: unless a killed run has left a count in Alive.
\* With one, a receiver passes GO alone, takes what the segment holds and, if that is the
\* end of another file, ends without an error and with nothing printed.
PrintsTheFile ==
    ghosts = 0 =>
        \A r \in Receiver :
            /\ printed[r] = [k \in 1 .. Len(printed[r]) |-> k]
            /\ pc[r] = "done" => Len(printed[r]) = Blocks

Transfers(p) == pc[p] \in {"wait", "access", "signal"}

\* If one side is killed while the other one is in the transfer, the other one notices and
\* ends: it never waits for a process that is gone.  A count left in Alive by an earlier
\* run stands for the dead one, and then nobody notices.
DeathIsNoticed ==
    \/ ghosts > 0
    \/ <>[](\A p, q \in Process :
               p # q => ~(pc[p] \in {"killed", "crashed"} /\ Transfers(q)))
=============================================================================
