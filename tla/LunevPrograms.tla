--------------------------- MODULE LunevPrograms ---------------------------
(***************************************************************************)
(* The programs of Lunev/, most of which talk through the kernel's IPC or  *)
(* the network, side by side.  They do not interact: a behaviour starts    *)
(* one of them and runs that one, the variables of the others stay as they *)
(* are.                                                                    *)
(***************************************************************************)
EXTENDS Integers, Sequences, FiniteSets

CONSTANTS MaxKills                            \* bound: how many processes are killed
CONSTANTS r1, s1, ShmemBlocks, ShmemLeft      \* shmem: a receiver and a sender
CONSTANTS Receiver, Sender, FifoBlocks, Capacity
CONSTANTS Codes, Length                       \* signal: the file
CONSTANTS ChainLength, FileLength, MinBuf, PipeCapacity, PipeBuf
CONSTANTS Jobs, ChildrenOf                    \* msg and newton: runs side by side;
CONSTANTS IntervalsOf, ProcessesOf            \* what each of them was called with
CONSTANTS Server, Nservs, ServerProcs
CONSTANTS Key, Hash, MaxHash, MaxAdds

VARIABLES program     \* the one that is run

VARIABLES sem, undo, shmem, spc, block, toReset, failed, sprinted, ghosts
VARIABLES syncOpen, syncFull, data, ends, fpc, sent, fprinted
VARIABLES file, pos, childPc, parentPc, sigToChild, sigToParent, deathSig, orphan,
          sigflag, bits, gprinted, gkills
VARIABLES left, toChild, toParent, cbuf, ccpc, buf, size, alive, cppc, inset, outset,
          turn, output, ckills
VARIABLES mqueue, mforked, mppc, mcpc, mprinted, mkills
VARIABLES nqueue, nforked, nppc, ncpc, i, localsum, received, sum, senders, nkills
VARIABLES dcpc, chosen, bound, tpc, chb, shb, dspc, part, heard, answers, task, result,
          heirs, silent, faults
VARIABLES list, sentinel, serial, running, iterator, got, whole

shmemVars == <<sem, undo, shmem, spc, block, toReset, failed, sprinted, ghosts>>
fifoVars == <<syncOpen, syncFull, data, ends, fpc, sent, fprinted>>
signalVars == <<file, pos, childPc, parentPc, sigToChild, sigToParent, deathSig, orphan,
                sigflag, bits, gprinted, gkills>>
selectVars == <<left, toChild, toParent, cbuf, ccpc, buf, size, alive, cppc, inset,
                outset, turn, output, ckills>>
msgVars == <<mqueue, mforked, mppc, mcpc, mprinted, mkills>>
newtonVars == <<nqueue, nforked, nppc, ncpc, i, localsum, received, sum, senders, nkills>>
netVars == <<dcpc, chosen, bound, tpc, chb, shb, dspc, part, heard, answers, task, result,
             heirs, silent, faults>>
tableVars == <<list, sentinel, serial, running, iterator, got, whole>>
vars == <<program, shmemVars, fifoVars, signalVars, selectVars, msgVars, newtonVars,
          netVars, tableVars>>

-----------------------------------------------------------------------------
\* One sender, one receiver, and a file that may be missing.
Shmem == INSTANCE ShmemTransfer
             WITH Receiver <- {r1}, Sender <- {s1}, Blocks <- ShmemBlocks,
                  MaxCrashes <- MaxKills, MaxLeft <- ShmemLeft, FileMayMiss <- TRUE,
                  pc <- spc, printed <- sprinted

\* Any number of each kind.
Fifo == INSTANCE FifoTransfer
            WITH Blocks <- FifoBlocks, pc <- fpc, printed <- fprinted

Signal == INSTANCE SignalTransfer
              WITH toChild <- sigToChild, toParent <- sigToParent,
                   printed <- gprinted, kills <- gkills

Select == INSTANCE SelectRelay
              WITH N <- ChainLength, cpc <- ccpc, ppc <- cppc, kills <- ckills

\* Runs of msg, and of newton, that share the queue.
Msg == INSTANCE MsgRing
           WITH N <- ChildrenOf, queue <- mqueue, forked <- mforked, ppc <- mppc,
                cpc <- mcpc, printed <- mprinted, kills <- mkills
Newton == INSTANCE Newton
              WITH Ninter <- IntervalsOf, Nprocs <- ProcessesOf,
                   queue <- nqueue, forked <- nforked, ppc <- nppc, cpc <- ncpc,
                   kills <- nkills

Net == INSTANCE NewtonNet WITH Nprocs <- ServerProcs, cpc <- dcpc, spc <- dspc

Table == INSTANCE ListHashTable

\* The instance that is checked.  msg: two runs, of two and of three children; newton: two,
\* three intervals for two children and one for two; newton.net: servers of one and of two
\* processes; hashtable: two of three keys fall into one of two buckets.
TwoAndThree == <<2, 3>>
ThreeAndOne == <<3, 1>>
TwoAndTwo == <<2, 2>>
OneAndTwo == <<1, 2>>
SomeHash == [a |-> 0, b |-> 2, c |-> 1]

ASSUME ProgramsAssumption ==
    /\ Shmem!BoundAssumption /\ Shmem!SideAssumption
    /\ Fifo!SizeAssumption /\ Fifo!SideAssumption /\ Signal!ByteAssumption
    /\ Select!SizeAssumption /\ Msg!NAssumption /\ Msg!JobsAssumption
    /\ Newton!JobAssumption /\ Newton!BoundAssumption
    /\ Net!NetAssumption /\ Table!TableAssumption

-----------------------------------------------------------------------------
\* A program that is not run has one initial state.
Init == /\ program \in {"shmem", "fifo", "signal", "select", "msg", "newton", "net", "table"}
        /\ Shmem!Init /\ Fifo!Init /\ Signal!Init
        /\ Select!Init /\ Msg!Init /\ Newton!Init /\ Net!Init /\ Table!Init
        /\ program = "shmem" \/ (shmem = Shmem!Eof /\ \A k \in DOMAIN sem : sem[k] = 0)
        /\ program = "signal" \/ \A k \in DOMAIN file : file[k] = 0

RunShmem == /\ program = "shmem"
            /\ UNCHANGED <<program, fifoVars, signalVars, selectVars, msgVars,
                           newtonVars, netVars, tableVars>>
RunFifo == /\ program = "fifo"
           /\ UNCHANGED <<program, shmemVars, signalVars, selectVars, msgVars,
                          newtonVars, netVars, tableVars>>
RunSignal == /\ program = "signal"
             /\ UNCHANGED <<program, shmemVars, fifoVars, selectVars, msgVars,
                            newtonVars, netVars, tableVars>>
RunSelect == /\ program = "select"
             /\ UNCHANGED <<program, shmemVars, fifoVars, signalVars, msgVars,
                            newtonVars, netVars, tableVars>>
RunMsg == /\ program = "msg"
          /\ UNCHANGED <<program, shmemVars, fifoVars, signalVars, selectVars,
                         newtonVars, netVars, tableVars>>
RunNewton == /\ program = "newton"
             /\ UNCHANGED <<program, shmemVars, fifoVars, signalVars, selectVars,
                            msgVars, netVars, tableVars>>
RunNet == /\ program = "net"
          /\ UNCHANGED <<program, shmemVars, fifoVars, signalVars, selectVars, msgVars,
                         newtonVars, tableVars>>
RunTable == /\ program = "table"
            /\ UNCHANGED <<program, shmemVars, fifoVars, signalVars, selectVars, msgVars,
                           newtonVars, netVars>>

Step == \/ RunShmem /\ Shmem!Step
        \/ RunFifo /\ Fifo!Step
        \/ RunSignal /\ Signal!Step
        \/ RunSelect /\ Select!Step
        \/ RunMsg /\ Msg!Step
        \/ RunNewton /\ Newton!Step
        \/ RunNet /\ Net!Step

Kill == \/ RunShmem /\ \E p \in {r1, s1} : Shmem!Kill(p)
        \/ RunFifo /\ \E p \in Fifo!Process : Fifo!Kill(p)
        \/ RunSignal /\ (Signal!KillChild \/ Signal!KillParent)
        \/ RunSelect /\ \E k \in Select!Child : Select!Kill(k)
        \/ RunMsg /\ \E c \in Msg!Children : Msg!Kill(c)
        \/ RunNewton /\ \E c \in Newton!Computers : Newton!Kill(c)
        \/ RunNet /\ Net!Fault

Call == RunTable /\ Table!Next

Next == Step \/ Kill \/ Call

\* As long as some process of the program can go on, one does; nobody is bound to
\* be killed, or to call the hash table.
FairSpec == Init /\ [][Next]_vars /\ WF_vars(Step)

-----------------------------------------------------------------------------
\* The types of all the programs, with the bounds of their pipes and buffers.
TypeOK == CASE program = "shmem" -> Shmem!TypeOK
            [] program = "fifo" -> Fifo!TypeOK
            [] program = "signal" -> Signal!TypeOK
            [] program = "select" -> Select!TypeOK
            [] program = "msg" -> Msg!TypeOK
            [] program = "newton" -> Newton!TypeOK
            [] program = "net" -> Net!TypeOK
            [] program = "table" -> Table!TypeOK

\* What comes out is the file that went in.  shmem: in order, with what a killed run has
\* left in the segment and in the semaphores (unless a count in Alive is among it), and
\* all of it unless one of the two fails.  fifo: without a
\* gap or blocks of another file inside.  signal: no bit is lost or swallowed by one
\* that is still pending, and the bytes are rebuilt.  select: the last child writes the
\* file, through buffers of different sizes and writes that stop half way.
FilesAreCopied == CASE program = "shmem" -> Shmem!PrintsTheFile
                    [] program = "fifo" -> Fifo!FilesNotMixed
                    [] program = "signal" -> Signal!PrintsTheFile
                    [] program = "select" -> Select!CopiesTheFile
                    [] OTHER -> TRUE

\* What the processes send each other adds up.  msg: the children of a run print in the
\* order of their places, whatever other run shares the queue.  newton: a run that has met
\* no message of another has added its own intervals, all and each once; one that has met
\* some has not, but among all the runs no interval is lost or added twice.  newton.net: a
\* sum that is printed is made of parts that join, each added once.
SharesAddUp == CASE program = "msg" -> Msg!InTurn
                 [] program = "newton" -> Newton!EachIntervalOnce
                 [] program = "net" -> Net!PrintsOneIntegral
                 [] OTHER -> TRUE

\* hashtable: a second copy of a key can only be of the oldest element of its bucket,
\* and an iteration gives every element once, whatever is added or deleted meanwhile.
TableIsConsistent == program = "table" => Table!OnlyTheOldestIsCopied /\ Table!IterationIsComplete

\* Nobody waits for one that was killed: the two sides of shmem if no count is left in
\* Alive, the parent of signal, client and servers of newton.net once their heartbeats are
\* connected, unless a surviving heartbeat of the client holds the connection open.
DeathIsNoticed == Shmem!DeathIsNoticed /\ Signal!ParentFollows /\ Net!HeartbeatsGuard

\* fifo and select end whoever is killed; runs of msg and newton end if nobody is, the
\* runs of newton although they take each other's messages.
EveryoneEnds ==
    /\ Fifo!CopyEnds
    /\ <>CASE program = "select" -> Select!AllEnded
           [] program = "msg" -> mkills > 0 \/ Msg!AllEnded
           [] program = "newton" -> nkills > 0 \/ Newton!AllEnded
           [] OTHER -> TRUE
=============================================================================
