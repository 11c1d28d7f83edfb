---------------------------- MODULE FifoTransfer ----------------------------
(***************************************************************************)
(* Lunev/fifo: senders copy files to receivers through the FIFO my_fifo.   *)
(* fifo_rcv and fifo_snd keep a second receiver or sender out: they have   *)
(* room for one message, which stays inside as long as a process has the   *)
(* FIFO open, and O_NONBLOCK makes a second write fail.                    *)
(*                                                                         *)
(* A FIFO forgets its contents when no process has it open any more.       *)
(* open() for reading waits for a writer to open, and the other way round. *)
(***************************************************************************)
EXTENDS Naturals, Sequences, FiniteSets

CONSTANTS Receiver, Sender,
          Blocks,       \* how many blocks a file has
          Capacity,     \* how many blocks my_fifo holds
          MaxKills      \* bound: how many processes are killed

SizeAssumption == Blocks \in Nat /\ Capacity \in Nat \ {0} /\ MaxKills \in Nat
SideAssumption == Receiver \cap Sender = {}

Process == Receiver \cup Sender
SyncOf(p) == IF p \in Receiver THEN "fifo_rcv" ELSE "fifo_snd"
SyncFifos == {"fifo_rcv", "fifo_snd"}

VARIABLES syncOpen,   \* sync FIFO -> the processes that have it open
          syncFull,   \* sync FIFO -> it holds a message
          data,       \* the blocks in my_fifo
          ends,       \* the processes that have my_fifo open, or wait to
          pc,
          sent,       \* sender -> how many blocks it has written
          printed     \* receiver -> the blocks it has printed

vars == <<syncOpen, syncFull, data, ends, pc, sent, printed>>

Init == /\ syncOpen = [f \in SyncFifos |-> {}]
        /\ syncFull = [f \in SyncFifos |-> FALSE]
        /\ data = <<>>
        /\ ends = {}
        /\ pc = [p \in Process |-> "open sync"]
        /\ sent = [s \in Sender |-> 0]
        /\ printed = [r \in Receiver |-> <<>>]

Readers == ends \cap Receiver
Writers == ends \cap Sender

Goto(p, l) == pc' = [pc EXCEPT ![p] = l]

CloseSync(p) ==
    LET left == syncOpen[SyncOf(p)] \ {p}
    IN /\ syncOpen' = [syncOpen EXCEPT ![SyncOf(p)] = left]
       /\ syncFull' = [syncFull EXCEPT ![SyncOf(p)] = @ /\ left # {}]

CloseData(p) == /\ ends' = ends \ {p}
                /\ data' = IF ends \ {p} = {} THEN <<>> ELSE data

-----------------------------------------------------------------------------
OpenSync(p) == /\ pc[p] = "open sync"
               /\ syncOpen' = [syncOpen EXCEPT ![SyncOf(p)] = @ \cup {p}]
               /\ Goto(p, "write sync")
               /\ UNCHANGED <<syncFull, data, ends, sent, printed>>

\* Mutant: the outcome of the write is not looked at.
WriteSyncAnyway(p) == /\ pc[p] = "write sync"
                      /\ syncFull' = [syncFull EXCEPT ![SyncOf(p)] = TRUE]
                      /\ Goto(p, "open")
                      /\ UNCHANGED <<syncOpen, data, ends, sent, printed>>

\* The write fails when the FIFO is full, and the process exits.
WriteSync(p) == /\ pc[p] = "write sync"
                /\ \/ /\ ~syncFull[SyncOf(p)]
                      /\ syncFull' = [syncFull EXCEPT ![SyncOf(p)] = TRUE]
                      /\ Goto(p, "open")
                      /\ UNCHANGED syncOpen
                   \/ /\ syncFull[SyncOf(p)]
                      /\ CloseSync(p)
                      /\ Goto(p, "refused")
                /\ UNCHANGED <<data, ends, sent, printed>>

\* open() of my_fifo: p counts as an end from here on, lets those of the other
\* kind in that wait for one, and waits itself if there is none.
OpenData(p) ==
    LET others == IF p \in Receiver THEN Writers ELSE Readers
    IN /\ pc[p] = "open"
       /\ ends' = ends \cup {p}
       /\ pc' = [q \in Process |->
                    IF q = p THEN IF others = {} THEN "opening" ELSE "copy"
                    ELSE IF q \in others /\ pc[q] = "opening" THEN "copy" ELSE pc[q]]
       /\ UNCHANGED <<syncOpen, syncFull, data, sent, printed>>

Read(r) == /\ pc[r] = "copy" /\ r \in Receiver
           /\ data # <<>>
           /\ printed' = [printed EXCEPT ![r] = Append(@, Head(data))]
           /\ data' = Tail(data)
           /\ UNCHANGED <<syncOpen, syncFull, ends, pc, sent>>

\* read() returns 0.
EndOfFile(r) == /\ pc[r] = "copy"
                /\ data = <<>> /\ Writers = {}
                /\ Goto(r, "close data")
                /\ UNCHANGED <<syncOpen, syncFull, data, ends, sent, printed>>

Write(s) == /\ pc[s] = "copy" /\ sent[s] < Blocks
            /\ Readers # {}
            /\ Len(data) < Capacity
            /\ data' = Append(data, <<s, sent[s] + 1>>)
            /\ sent' = [sent EXCEPT ![s] = @ + 1]
            /\ UNCHANGED <<syncOpen, syncFull, ends, pc, printed>>

\* A write that no reader can read kills the sender by SIGPIPE.
Sigpipe(s) == /\ pc[s] = "copy" /\ sent[s] < Blocks
              /\ Readers = {}
              /\ CloseSync(s) /\ CloseData(s)
              /\ Goto(s, "failed")
              /\ UNCHANGED <<sent, printed>>

\* SENT: the file is read to its end.
Sent(s) == /\ pc[s] = "copy" /\ sent[s] = Blocks
           /\ Goto(s, "close sync")
           /\ UNCHANGED <<syncOpen, syncFull, data, ends, sent, printed>>

\* Mutant: my_fifo is left open.
LeaveOpen(p) == /\ pc[p] = "close data"
                /\ Goto(p, IF p \in Receiver THEN "close sync" ELSE "done")
                /\ UNCHANGED <<syncOpen, syncFull, data, ends, sent, printed>>

\* A receiver closes my_fifo first, a sender last.
CloseDataOf(p) == /\ pc[p] = "close data"
                  /\ CloseData(p)
                  /\ Goto(p, IF p \in Receiver THEN "close sync" ELSE "done")
                  /\ UNCHANGED <<syncOpen, syncFull, sent, printed>>

CloseSyncOf(p) == /\ pc[p] = "close sync"
                  /\ CloseSync(p)
                  /\ Goto(p, IF p \in Receiver THEN "done" ELSE "close data")
                  /\ UNCHANGED <<data, ends, sent, printed>>

Over == {"refused", "failed", "done", "killed"}

Kill(p) == /\ pc[p] \notin Over
           /\ Cardinality({q \in Process : pc[q] = "killed"}) < MaxKills
           /\ CloseSync(p) /\ CloseData(p)
           /\ Goto(p, "killed")
           /\ UNCHANGED <<sent, printed>>

Common(p) == OpenSync(p) \/ WriteSync(p) \/ OpenData(p) \/ CloseDataOf(p) \/ CloseSyncOf(p)
Receive(r) == Common(r) \/ Read(r) \/ EndOfFile(r)
Send(s) == Common(s) \/ Write(s) \/ Sigpipe(s) \/ Sent(s)

Step == \/ \E r \in Receiver : Receive(r)
        \/ \E s \in Sender : Send(s)

Next == Step \/ \E p \in Process : Kill(p)

Spec == Init /\ [][Next]_vars

\* As long as some process can go on, one does; nobody is bound to be killed.
\* No process can go on for ever, so this is all the fairness there is to ask.
FairSpec == Spec /\ WF_vars(Step)

-----------------------------------------------------------------------------
Locations == Over \cup {"open sync", "write sync", "open", "opening", "copy",
                        "close data", "close sync"}

\* The types, and who has what open.
TypeOK == /\ syncOpen \in [SyncFifos -> SUBSET Process]
          /\ syncFull \in [SyncFifos -> BOOLEAN]
          /\ Len(data) <= Capacity
          /\ data \in Seq(Sender \X (1 .. Blocks))
          /\ pc \in [Process -> Locations]
          /\ \A p \in ends : pc[p] \in {"opening", "copy", "close data", "close sync"}
          /\ sent \in [Sender -> 0 .. Blocks]
          /\ \A r \in Receiver : printed[r] \in Seq(Sender \X (1 .. Blocks))

\* A receiver prints the blocks of a sender without a gap, in order and not
\* mixed with those of another one, although a sender lets the next one in
\* while it still has my_fifo open.
FilesNotMixed ==
    \A r \in Receiver :
        \A j, k \in 1 .. Len(printed[r]) :
            j < k /\ printed[r][j][1] = printed[r][k][1]
                => printed[r][k][2] - printed[r][j][2] = k - j

\* Whoever has begun to copy ends: killed or slow partners, a full FIFO and
\* the next sender notwithstanding.
CopyEnds == <>[](\A p \in Process : pc[p] # "copy")
=============================================================================
