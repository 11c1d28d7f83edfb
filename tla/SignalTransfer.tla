---------------------------- MODULE SignalTransfer --------------------------
(***************************************************************************)
(* Lunev/signal: a child sends a file to its parent bit by bit, SIGUSR1    *)
(* for a one and SIGUSR2 for a zero, and waits for SIGUSR1 after each.     *)
(*                                                                         *)
(* Both block the signals except in sigsuspend().  A signal that is        *)
(* pending is not queued a second time.  sigsuspend() runs one handler,    *)
(* that of the pending signal with the lowest number.                      *)
(***************************************************************************)
EXTENDS Integers, Sequences, FiniteSets

CONSTANTS Codes,         \* the bytes that may be in the file, unsigned
          Length,        \* how long the file is
          MaxKills       \* bound: how many of the two are killed

ByteAssumption == Codes \subseteq 0 .. 255 /\ Length \in Nat /\ MaxKills \in Nat

One == "SIGUSR1"
Zero == "SIGUSR2"
BitsInByte == 8

VARIABLES file,        \* what the child reads
          pos,         \* how many bits it has sent
          childPc, parentPc,
          toChild,     \* the child's pending signals
          toParent,    \* the parent's
          deathSig,    \* PR_SET_PDEATHSIG is in effect
          orphan,      \* getppid() has returned another process
          sigflag,
          bits,        \* the parent's bits[0 .. bitscounter - 1]
          printed,
          kills

vars == <<file, pos, childPc, parentPc, toChild, toParent, deathSig, orphan,
          sigflag, bits, printed, kills>>

\* int8_t
Wrap8(x) == ((x + 128) % 256) - 128

Init == /\ file \in [1 .. Length -> {Wrap8(c) : c \in Codes}]
        /\ pos = 0
        /\ childPc = "prctl" /\ parentPc = "suspend"
        /\ toChild = {} /\ toParent = {}
        /\ deathSig = FALSE /\ orphan = FALSE
        /\ sigflag = 0
        /\ bits = <<>>
        /\ printed = <<>>
        /\ kills = 0

-----------------------------------------------------------------------------
\* byte_to_bits: a shift of a negative byte to the right leaves -1.
ByteToBits(byte) ==
    LET shifted[i \in 1 .. BitsInByte] == IF i = 1 THEN byte ELSE Wrap8(2 * shifted[i - 1])
    IN [i \in 1 .. BitsInByte |-> IF shifted[i] < 0 THEN -1 ELSE 0]

\* bits_to_byte: the one at the start is shifted out.
BitsToByte(b) ==
    LET byte[i \in 0 .. BitsInByte] == IF i = 0 THEN 1 ELSE Wrap8(2 * byte[i - 1] + b[i])
    IN byte[BitsInByte]

\* The bit after the first k
NextBit(k) == ByteToBits(file[k \div BitsInByte + 1])[(k % BitsInByte) + 1]

ChildAlive == childPc # "gone"
ParentAlive == parentPc # "gone"

-----------------------------------------------------------------------------
Prctl == /\ childPc = "prctl"
         /\ deathSig' = TRUE
         /\ childPc' = "open"
         /\ UNCHANGED <<file, pos, parentPc, toChild, toParent, orphan, sigflag, bits, printed, kills>>

\* exit() of the child, and the SIGCHLD it brings.
ChildExit == /\ childPc' = "gone"
             /\ toParent' = IF ParentAlive THEN toParent \cup {"SIGCHLD"} ELSE toParent

\* fopen, which may fail, and getppid().
Open == /\ childPc = "open"
        /\ \/ /\ childPc' = "send"
              /\ orphan' = ~ParentAlive
              /\ UNCHANGED toParent
           \/ ChildExit /\ UNCHANGED orphan
        /\ UNCHANGED <<file, pos, parentPc, toChild, deathSig, sigflag, bits, printed, kills>>

\* Mutant: the child does not wait for the parent after a bit.
SendOn == /\ childPc = "send" /\ pos < Length * BitsInByte
          /\ toParent' = IF orphan THEN toParent
                         ELSE toParent \cup {IF NextBit(pos) = 0 THEN Zero ELSE One}
          /\ pos' = pos + 1
          /\ UNCHANGED <<childPc, file, parentPc, toChild, deathSig, orphan, sigflag, bits, printed, kills>>

\* The two loops: one bit to the process that was the parent.
Send == /\ childPc = "send" /\ pos < Length * BitsInByte
        /\ toParent' = IF ~ParentAlive \/ orphan THEN toParent
                       ELSE toParent \cup {IF NextBit(pos) = 0 THEN Zero ELSE One}
        /\ pos' = pos + 1
        /\ childPc' = "suspend"
        /\ UNCHANGED <<file, parentPc, toChild, deathSig, orphan, sigflag, bits, printed, kills>>

\* sigsuspend() returns when the empty handler has run.
ChildWake == /\ childPc = "suspend" /\ One \in toChild
             /\ toChild' = toChild \ {One}
             /\ childPc' = "send"
             /\ UNCHANGED <<file, pos, parentPc, toParent, deathSig, orphan, sigflag, bits, printed, kills>>

Sent == /\ childPc = "send" /\ pos = Length * BitsInByte
        /\ ChildExit
        /\ UNCHANGED <<file, pos, parentPc, toChild, deathSig, orphan, sigflag, bits, printed, kills>>

\* SIGHUP is never blocked: exit_parent.
Hangup == /\ ChildAlive /\ "SIGHUP" \in toChild
          /\ ChildExit
          /\ UNCHANGED <<file, pos, parentPc, toChild, deathSig, orphan, sigflag, bits, printed, kills>>

-----------------------------------------------------------------------------
\* What the end of the parent does to the child.
ParentExit == /\ parentPc' = "gone"
              /\ toChild' = IF deathSig THEN toChild \cup {"SIGHUP"} ELSE toChild

\* sigsuspend() with a bit pending: bit_code.
ReceiveBit == /\ parentPc = "suspend"
              /\ \/ /\ One \in toParent
                    /\ toParent' = toParent \ {One}
                    /\ sigflag' = 1
                 \/ /\ One \notin toParent /\ Zero \in toParent
                    /\ toParent' = toParent \ {Zero}
                    /\ sigflag' = 2
              /\ parentPc' = "store"
              /\ UNCHANGED <<file, pos, childPc, toChild, deathSig, orphan, bits, printed, kills>>

\* Mutant: the end of the child is not noticed.
ChildGoneIgnored == /\ parentPc = "suspend" /\ toParent = {"SIGCHLD"}
                    /\ toParent' = {}
                    /\ UNCHANGED <<file, pos, childPc, parentPc, toChild, deathSig, orphan,
                                   sigflag, bits, printed, kills>>

\* sigsuspend() with nothing but SIGCHLD pending: exit_child.
ChildGone == /\ parentPc = "suspend" /\ toParent = {"SIGCHLD"}
             /\ ParentExit
             /\ UNCHANGED <<file, pos, childPc, toParent, deathSig, orphan, sigflag, bits, printed, kills>>

Store == /\ parentPc = "store"
         /\ LET all == Append(bits, sigflag % 2)
            IN IF Len(all) = BitsInByte
               THEN /\ printed' = Append(printed, BitsToByte(all))
                    /\ bits' = <<>>
               ELSE bits' = all /\ UNCHANGED printed
         /\ sigflag' = 0
         /\ parentPc' = "ready"
         /\ UNCHANGED <<file, pos, childPc, toChild, toParent, deathSig, orphan, kills>>

\* rdy_to_rcv
Ready == /\ parentPc = "ready"
         /\ toChild' = IF ChildAlive THEN toChild \cup {One} ELSE toChild
         /\ parentPc' = "suspend"
         /\ UNCHANGED <<file, pos, childPc, toParent, deathSig, orphan, sigflag, bits, printed, kills>>

-----------------------------------------------------------------------------
KillChild == /\ ChildAlive /\ kills < MaxKills
             /\ ChildExit
             /\ kills' = kills + 1
             /\ UNCHANGED <<file, pos, parentPc, toChild, deathSig, orphan, sigflag, bits, printed>>

KillParent == /\ ParentAlive /\ kills < MaxKills
              /\ ParentExit
              /\ kills' = kills + 1
              /\ UNCHANGED <<file, pos, childPc, toParent, deathSig, orphan, sigflag, bits, printed>>

Child == Prctl \/ Open \/ Send \/ ChildWake \/ Sent \/ Hangup
Parent == ReceiveBit \/ ChildGone \/ Store \/ Ready

Step == Child \/ Parent

Next == Step \/ KillChild \/ KillParent

Spec == Init /\ [][Next]_vars

\* As long as some process can go on, one does; nobody is bound to be killed.
\* No process can go on for ever, so this is all the fairness there is to ask.
FairSpec == Spec /\ WF_vars(Step)

-----------------------------------------------------------------------------
\* The types; less than a byte of bits is kept.
TypeOK == /\ pos \in 0 .. Length * BitsInByte
          /\ childPc \in {"prctl", "open", "send", "suspend", "gone"}
          /\ parentPc \in {"suspend", "store", "ready", "gone"}
          /\ toChild \subseteq {One, "SIGHUP"}
          /\ toParent \subseteq {One, Zero, "SIGCHLD"}
          /\ sigflag \in 0 .. 2
          /\ Len(bits) < BitsInByte
          /\ Len(printed) <= Length

\* The parent prints the bytes of the file in order; all of them if nobody was
\* killed and the child got as far as the end of the file.
PrintsTheFile ==
    /\ printed = SubSeq(file, 1, Len(printed))
    /\ ~ParentAlive /\ kills = 0 /\ pos = Length * BitsInByte => printed = file

\* The parent does not outlive the child, whenever and however that ends.
ParentFollows == ~ChildAlive ~> ~ParentAlive
=============================================================================
