----------------------------- MODULE SelectRelay ----------------------------
(***************************************************************************)
(* Lunev/select: the parent carries a file from child to child.  Child 0   *)
(* reads it; what child k writes to its pipe the parent buffers in         *)
(* pipers[k] and writes to the pipe of child k + 1, or to its own output   *)
(* for the last one.  One select() loop serves all buffers.                *)
(*                                                                         *)
(* A pipe is ready for writing when it has room for PipeBuf units of data. *)
(* A write of at most that many is done as a whole, a larger one on a      *)
(* non-blocking pipe as far as there is room.                              *)
(***************************************************************************)
EXTENDS Naturals, Sequences, FiniteSets

CONSTANTS N,              \* how many children
          FileLength,
          MinBuf,         \* MIN_BUF_SIZE
          PipeCapacity, PipeBuf,
          MaxKills        \* bound: how many children are killed

SizeAssumption == /\ N \in Nat \ {0} /\ FileLength \in Nat
                  /\ MinBuf \in Nat \ {0} /\ MaxKills \in Nat
                  /\ PipeCapacity \in Nat /\ PipeBuf \in 1 .. PipeCapacity

Child == 0 .. N - 1

VARIABLES left,       \* how much of the file child 0 has read
          toChild,    \* child -> the pipe the parent writes to
          toParent,   \* child -> the pipe the child writes to
          cbuf,       \* child -> what it has read and not yet written
          cpc,        \* child -> "run", "ended" or "killed"
          buf, size, alive,   \* pipers: buf, effective_size and alive
          ppc,        \* the parent: "select", "serve", "wait", "ended", "killed"
          inset, outset, turn,   \* the outcome of select() and j
          output,     \* what the parent has written to its output
          kills

pipes == <<toChild, toParent>>
childVars == <<left, cbuf, cpc>>
pipers == <<buf, size, alive>>
loop == <<ppc, inset, outset, turn>>
vars == <<left, pipes, cbuf, cpc, pipers, loop, output, kills>>

Init == /\ left = 0
        /\ toChild = [k \in Child |-> <<>>]
        /\ toParent = [k \in Child |-> <<>>]
        /\ cbuf = [k \in Child |-> <<>>]
        /\ cpc = [k \in Child |-> "run"]
        /\ buf = [k \in Child |-> <<>>]
        /\ size = [k \in Child |-> 0]
        /\ alive = [k \in Child |-> TRUE]
        /\ ppc = "select"
        /\ inset = {} /\ outset = {} /\ turn = 0
        /\ output = <<>>
        /\ kills = 0

Least(a, b) == IF a < b THEN a ELSE b
First(n, s) == SubSeq(s, 1, Least(n, Len(s)))
Without(n, s) == SubSeq(s, n + 1, Len(s))

ParentRuns == ppc \in {"select", "serve"}

\* The parent's ends of the pipes of pipers[j].
HoldsDin(j) == ParentRuns /\ alive[j]
HoldsDout(j) == ParentRuns /\ alive[j]

-----------------------------------------------------------------------------
\* A child reads up to MIN_BUF_SIZE * N; child 0 from the file.
ReadFile == /\ cpc[0] = "run" /\ cbuf[0] = <<>> /\ left < FileLength
            /\ LET n == Least(MinBuf * N, FileLength - left)
               IN /\ cbuf' = [cbuf EXCEPT ![0] = [i \in 1 .. n |-> left + i]]
                  /\ left' = left + n
            /\ UNCHANGED <<pipes, cpc, pipers, loop, output, kills>>

ChildRead(k) == /\ k > 0 /\ cpc[k] = "run" /\ cbuf[k] = <<>>
                /\ toChild[k] # <<>>
                /\ cbuf' = [cbuf EXCEPT ![k] = First(MinBuf * N, toChild[k])]
                /\ toChild' = [toChild EXCEPT ![k] = Without(MinBuf * N, toChild[k])]
                /\ UNCHANGED <<left, toParent, cpc, pipers, loop, output, kills>>

\* A blocking write goes on, unit by unit, as room appears.
ChildWrite(k) == /\ cpc[k] = "run" /\ cbuf[k] # <<>>
                 /\ HoldsDin(k)
                 /\ Len(toParent[k]) < PipeCapacity
                 /\ toParent' = [toParent EXCEPT ![k] = Append(@, Head(cbuf[k]))]
                 /\ cbuf' = [cbuf EXCEPT ![k] = Tail(@)]
                 /\ UNCHANGED <<left, toChild, cpc, pipers, loop, output, kills>>

\* A write nobody will read: SIGPIPE.
ChildSigpipe(k) == /\ cpc[k] = "run" /\ cbuf[k] # <<>>
                   /\ ~HoldsDin(k)
                   /\ cpc' = [cpc EXCEPT ![k] = "ended"]
                   /\ UNCHANGED <<left, cbuf, pipes, pipers, loop, output, kills>>

\* read() returns 0: the end of the file, or a pipe without writers.
ChildEnd(k) == /\ cpc[k] = "run" /\ cbuf[k] = <<>>
               /\ IF k = 0 THEN left = FileLength
                  ELSE toChild[k] = <<>> /\ ~HoldsDout(k - 1)
               /\ cpc' = [cpc EXCEPT ![k] = "ended"]
               /\ UNCHANGED <<left, cbuf, pipes, pipers, loop, output, kills>>

Kill(k) == /\ cpc[k] = "run" /\ kills < MaxKills
           /\ cpc' = [cpc EXCEPT ![k] = "killed"]
           /\ kills' = kills + 1
           /\ UNCHANGED <<left, cbuf, pipes, pipers, loop, output>>

-----------------------------------------------------------------------------
Readable(j) == toParent[j] # <<>> \/ cpc[j] # "run"
Writable(j) == \/ j = N - 1 \/ cpc[j + 1] # "run"
               \/ PipeCapacity - Len(toChild[j + 1]) >= PipeBuf

\* Mutant: a piper reads whether or not its buffer is empty.
SelectAllForReading ==
    /\ ppc = "select"
    /\ inset' = {j \in Child : alive[j] /\ Readable(j)}
    /\ outset' = {j \in Child : alive[j] /\ size[j] # 0 /\ Writable(j)}
    /\ inset' \cup outset' # {}
    /\ ppc' = "serve" /\ turn' = 0
    /\ UNCHANGED <<childVars, pipes, pipers, output, kills>>

\* The sets and select(), which waits until one of their members is ready.
Select == /\ ppc = "select"
          /\ inset' = {j \in Child : alive[j] /\ size[j] = 0 /\ Readable(j)}
          /\ outset' = {j \in Child : alive[j] /\ size[j] # 0 /\ Writable(j)}
          /\ inset' \cup outset' # {}
          /\ ppc' = "serve" /\ turn' = 0
          /\ UNCHANGED <<childVars, pipes, pipers, output, kills>>

NextTurn == /\ turn' = turn + 1
            /\ UNCHANGED <<ppc, inset, outset>>

Skip == /\ ppc = "serve" /\ turn < N
        /\ turn \notin inset \cup outset
        /\ NextTurn
        /\ UNCHANGED <<childVars, pipes, pipers, output, kills>>

\* Mutant: every read asks for as much as the largest buffer holds.
FillOverrun == /\ ppc = "serve" /\ turn \in inset
               /\ toParent[turn] # <<>>
               /\ LET data == First(MinBuf * N, toParent[turn])
                  IN /\ buf' = [buf EXCEPT ![turn] = data]
                     /\ size' = [size EXCEPT ![turn] = Len(data)]
                     /\ toParent' = [toParent EXCEPT ![turn] = Without(Len(data), @)]
               /\ NextTurn
               /\ UNCHANGED <<childVars, toChild, alive, output, kills>>

Fill == /\ ppc = "serve" /\ turn \in inset
        /\ toParent[turn] # <<>>
        /\ LET data == First(MinBuf * (N - turn), toParent[turn])
           IN /\ buf' = [buf EXCEPT ![turn] = data]
              /\ size' = [size EXCEPT ![turn] = Len(data)]
              /\ toParent' = [toParent EXCEPT ![turn] = Without(Len(data), @)]
        /\ NextTurn
        /\ UNCHANGED <<childVars, toChild, alive, output, kills>>

\* Mutant: the end of a child's data is not noticed.
EndNothing == /\ ppc = "serve" /\ turn \in inset
              /\ toParent[turn] = <<>>
              /\ NextTurn
              /\ UNCHANGED <<childVars, pipes, pipers, output, kills>>

\* read() returns 0: the piper is dead and its ends are closed.
EndPiper == /\ ppc = "serve" /\ turn \in inset
            /\ toParent[turn] = <<>>
            /\ alive' = [alive EXCEPT ![turn] = FALSE]
            /\ size' = [size EXCEPT ![turn] = 0]
            /\ NextTurn
            /\ UNCHANGED <<childVars, pipes, buf, output, kills>>

\* How much write() takes: all of what fits the rule above, or what there is
\* room for.
Amount(j) == IF j = N - 1 \/ size[j] <= PipeBuf THEN size[j]
             ELSE Least(size[j], PipeCapacity - Len(toChild[j + 1]))

\* effective_size is reduced, and then compared with what was written.
Drain == /\ ppc = "serve" /\ turn \in outset \ inset
         /\ turn < N - 1 => cpc[turn + 1] = "run"
         /\ LET n == Amount(turn)
                data == First(n, buf[turn])
                rest == size[turn] - n
            IN /\ IF turn = N - 1
                  THEN output' = output \o data /\ UNCHANGED toChild
                  ELSE /\ toChild' = [toChild EXCEPT ![turn + 1] = @ \o data]
                       /\ UNCHANGED output
               /\ size' = [size EXCEPT ![turn] = rest]
               /\ buf' = [buf EXCEPT ![turn] = IF n # rest THEN Without(n, @) ELSE @]
         /\ NextTurn
         /\ UNCHANGED <<childVars, toParent, alive, kills>>

\* The next child is gone: SIGPIPE ends the parent.
ParentSigpipe == /\ ppc = "serve" /\ turn \in outset
                 /\ turn < N - 1 /\ cpc[turn + 1] # "run"
                 /\ ppc' = "killed"
                 /\ UNCHANGED <<childVars, pipes, pipers, inset, outset, turn, output, kills>>

EndOfLoop == /\ ppc = "serve" /\ turn = N
             /\ ppc' = IF \E j \in Child : alive[j] THEN "select" ELSE "wait"
             /\ UNCHANGED <<childVars, pipes, pipers, inset, outset, turn, output, kills>>

\* wait() for every child.
WaitAll == /\ ppc = "wait"
           /\ \A k \in Child : cpc[k] # "run"
           /\ ppc' = "ended"
           /\ UNCHANGED <<childVars, pipes, pipers, inset, outset, turn, output, kills>>

RunChild(k) == \/ (k = 0 /\ ReadFile) \/ ChildRead(k) \/ ChildWrite(k)
               \/ ChildSigpipe(k) \/ ChildEnd(k)

Parent == Select \/ Skip \/ Fill \/ EndPiper \/ Drain \/ ParentSigpipe \/ EndOfLoop \/ WaitAll

Step == Parent \/ \E k \in Child : RunChild(k)

Next == Step \/ \E k \in Child : Kill(k)

Spec == Init /\ [][Next]_vars

\* As long as some process can go on, one does; nobody is bound to be killed.
\* No process can go on for ever, so this is all the fairness there is to ask.
FairSpec == Spec /\ WF_vars(Step)

-----------------------------------------------------------------------------
Data == Seq(1 .. FileLength)

\* The types; no pipe holds more than fits, and what a piper says it holds it
\* does.
TypeOK == /\ left \in 0 .. FileLength
          /\ \A k \in Child : /\ toChild[k] \in Data /\ Len(toChild[k]) <= PipeCapacity
                              /\ toParent[k] \in Data /\ Len(toParent[k]) <= PipeCapacity
                              /\ cbuf[k] \in Data /\ Len(cbuf[k]) <= MinBuf * N
                              /\ buf[k] \in Data /\ Len(buf[k]) <= MinBuf * (N - k)
                              /\ size[k] \in 0 .. Len(buf[k])
          /\ cpc \in [Child -> {"run", "ended", "killed"}]
          /\ ppc \in {"select", "serve", "wait", "ended", "killed"}
          /\ turn \in 0 .. N

\* The programs copy a file: what comes out is the beginning of the file, and
\* all of it when the parent has ended and nobody was killed.
CopiesTheFile == /\ output = [i \in 1 .. Len(output) |-> i]
                 /\ ppc = "ended" /\ kills = 0 => Len(output) = FileLength

\* Every process has ended; that they do, however long the chain and whoever is
\* killed, takes the end of file from one to the next.
AllEnded == ppc \in {"ended", "killed"} /\ \A k \in Child : cpc[k] # "run"
=============================================================================
